---- MODULE Spec2Model ----
(***************************************************************************)
(* Model of the semtech-udp server runtime (src/src/server_runtime/mod.rs) *)
(* and of the frame classification done by the packet parser               *)
(* (src/src/packet/parser.rs).                                             *)
(*                                                                         *)
(* Tasks of the runtime: UdpRx socket_handler, UdpRx cache_sender, the     *)
(* Internal task, one spawned socket-send task per downlink, and the       *)
(* application (callers of Downlink::dispatch and of ClientRx::recv).      *)
(***************************************************************************)
EXTENDS Integers, Sequences, FiniteSets, TLC

\* ------------------------------------------------------------------------
\* Bounds of the model
\* ------------------------------------------------------------------------
\* number of datagrams the environment sends on its own initiative
MaxDatagrams == 2
\* capacity of the two mpsc channels (mpsc::channel(100) in the code, scaled)
ChannelCap == 2
\* the wall clock runs from 0 to MaxTime seconds, in steps of TickStep
MaxTime == 120
TickStep == 60
\* the wall clock is set back at most MaxBack times, by BackStep seconds
MaxBack == 1
BackStep == 30
\* largest rxpk array carried by a PushData
MaxRxpk == 2
\* keepalives received in the "live" scenario: one more than the application
\* channel holds events
MaxLiveDatagrams == 3

\* ------------------------------------------------------------------------
\* Program constants
\* ------------------------------------------------------------------------
DEFAULT_DISCONNECT_THRESHOLD == 60
DEFAULT_CACHE_CHECK_FREQ == 60
PROTOCOL_VERSION == 2
PREFIX_LEN == 4
PACKET_PAYLOAD_START == 8
GATEWAY_MAC_LEN == 8

\* Identifier (repr u8)
PushData == 0
PushAck == 1
PullData == 2
PullResp == 3
PullAck == 4
TxAck == 5

\* ------------------------------------------------------------------------
\* Value domains
\* ------------------------------------------------------------------------
\* gateway MACs as 64-bit integers; 256 is a MAC whose last byte is 0x00
Macs == {1, 256}
\* socket addresses
Addrs == {1, 2}
\* random_token values (u16 in the code)
Tokens == {1, 2}
\* callers of Downlink::dispatch; each Downlink handle is consumed by dispatch
Callers == {1, 2}
NoCaller == 0

\* body of a datagram (the bytes after the 12-byte header of an uplink):
\*   "none"  no byte,  "nul" the single byte 0x00,
\*   "push"  a PushData JSON object with rxpk elements and/or a stat,
\*   "txack" a TxAck JSON object with the given error field,
\*   "garbage" bytes that are not JSON
Body(kind, rxpk, stat, error) ==
    [kind |-> kind, rxpk |-> rxpk, stat |-> stat, error |-> error]
NoBody == Body("none", 0, FALSE, "NONE")

BodyLen(b) == IF b.kind = "none" THEN 0 ELSE IF b.kind = "nul" THEN 1 ELSE 2

\* a datagram: total length, byte 0, bytes 1-2, byte 3, bytes 4-11, the rest;
\* re names the dispatch whose PullResp this datagram answers (0: none), it is
\* a history tag that no code path reads
Datagram(len, ver, tok, id, mac, body, re) ==
    [len |-> len, ver |-> ver, tok |-> tok, id |-> id, mac |-> mac,
     body |-> body, re |-> re]

UpDatagram(tok, id, mac, body) ==
    Datagram(PREFIX_LEN + GATEWAY_MAC_LEN + BodyLen(body), PROTOCOL_VERSION,
             tok, id, mac, body, 0)

\* ------------------------------------------------------------------------
\* packet/parser.rs
\* ------------------------------------------------------------------------
\* last byte of the buffer that follows the 4-byte prefix
LastByte(d) ==
    IF d.body.kind = "none" THEN d.mac % 256
    ELSE IF d.body.kind = "nul" THEN 0
    ELSE 125

\* fn terminate(buf): index where the JSON text ends
terminate(d) ==
    LET n == d.len - PREFIX_LEN IN
    IF n = 0 THEN 0
    ELSE IF LastByte(d) = 0 THEN n - 1
    ELSE n

\* serde_json::from_str of the body for the frame kind id
JsonOk(id, b) ==
    \/ id = PushData /\ b.kind = "push"
    \/ id = TxAck /\ b.kind = "txack"

\* enum ParseError: a and b are the fields of InvalidPacketLength(a, b),
\* InvalidProtocolVersion(a) and InvalidIdentifier(a)
ParseError(e, a, b) ==
    [res |-> "err", err |-> e, a |-> a, b |-> b, dir |-> "none", id |-> 0,
     tok |-> 0, mac |-> 0, body |-> NoBody, re |-> 0]
ParseErr(e) == ParseError(e, 0, 0)
ParsePanic ==
    [res |-> "panic", err |-> "slice index", a |-> 0, b |-> 0, dir |-> "none",
     id |-> 0, tok |-> 0, mac |-> 0, body |-> NoBody, re |-> 0]
ParseOk(dir, d, body) ==
    [res |-> "ok", err |-> "none", a |-> 0, b |-> 0, dir |-> dir, id |-> d.id,
     tok |-> d.tok, mac |-> IF dir = "up" THEN d.mac ELSE 0, body |-> body,
     re |-> d.re]

\* enum Identifier: the bytes Identifier::try_from accepts
Identifiers == {PushData, PushAck, PullData, PullResp, PullAck, TxAck}

\* fn gateway_mac(buffer) on a buffer of n < 8 bytes
gateway_mac_err(n) == ParseError("InvalidPacketLength", n, GATEWAY_MAC_LEN)

\* Packet::parse with a slip: the identifier is examined before the version
parse_IdFirst(d) ==
    IF d.len < PREFIX_LEN
    THEN ParseError("InvalidPacketLength", d.len, PREFIX_LEN)
    ELSE IF d.id \notin Identifiers THEN ParseError("InvalidIdentifier", d.id, 0)
    ELSE IF d.ver # PROTOCOL_VERSION
    THEN ParseError("InvalidProtocolVersion", d.ver, 0)
    ELSE LET n == d.len - PREFIX_LEN IN
      CASE d.id = PullData ->
             IF n < GATEWAY_MAC_LEN THEN gateway_mac_err(n)
             ELSE ParseOk("up", d, NoBody)
        [] d.id = PushData ->
             IF n < GATEWAY_MAC_LEN THEN gateway_mac_err(n)
             ELSE IF terminate(d) < PACKET_PAYLOAD_START THEN ParsePanic
             ELSE IF JsonOk(d.id, d.body) THEN ParseOk("up", d, d.body)
             ELSE ParseErr("InvalidJson")
        [] d.id = TxAck ->
             IF n < GATEWAY_MAC_LEN THEN gateway_mac_err(n)
             ELSE IF n > PACKET_PAYLOAD_START
             THEN IF n = PACKET_PAYLOAD_START + 1 /\ d.body.kind = "nul"
                  THEN ParseOk("up", d, Body("txack", 0, FALSE, "NONE"))
                  ELSE IF JsonOk(d.id, d.body) THEN ParseOk("up", d, d.body)
                  ELSE ParseErr("InvalidJson")
             ELSE ParseOk("up", d, Body("txack", 0, FALSE, "NONE"))
        [] d.id = PushAck -> ParseOk("down", d, NoBody)
        [] d.id = PullAck -> ParseOk("down", d, NoBody)
        [] d.id = PullResp ->
             IF d.body.kind = "pullresp" THEN ParseOk("down", d, d.body)
             ELSE ParseErr("InvalidJson")

\* Packet::parse
parse(d) ==
    IF d.len < PREFIX_LEN
    THEN ParseError("InvalidPacketLength", d.len, PREFIX_LEN)
    ELSE IF d.ver # PROTOCOL_VERSION
    THEN ParseError("InvalidProtocolVersion", d.ver, 0)
    ELSE IF d.id \notin Identifiers THEN ParseError("InvalidIdentifier", d.id, 0)
    ELSE LET n == d.len - PREFIX_LEN IN
      CASE d.id = PullData ->
             IF n < GATEWAY_MAC_LEN THEN gateway_mac_err(n)
             ELSE ParseOk("up", d, NoBody)
        [] d.id = PushData ->
             IF n < GATEWAY_MAC_LEN THEN gateway_mac_err(n)
             ELSE IF terminate(d) < PACKET_PAYLOAD_START THEN ParsePanic
             ELSE IF JsonOk(d.id, d.body) THEN ParseOk("up", d, d.body)
             ELSE ParseErr("InvalidJson")
        [] d.id = TxAck ->
             IF n < GATEWAY_MAC_LEN THEN gateway_mac_err(n)
             ELSE IF n > PACKET_PAYLOAD_START
             THEN IF n = PACKET_PAYLOAD_START + 1 /\ d.body.kind = "nul"
                  THEN ParseOk("up", d, Body("txack", 0, FALSE, "NONE"))
                  ELSE IF JsonOk(d.id, d.body) THEN ParseOk("up", d, d.body)
                  ELSE ParseErr("InvalidJson")
             ELSE ParseOk("up", d, Body("txack", 0, FALSE, "NONE"))
        [] d.id = PushAck -> ParseOk("down", d, NoBody)
        [] d.id = PullAck -> ParseOk("down", d, NoBody)
        [] d.id = PullResp ->
             IF d.body.kind = "pullresp" THEN ParseOk("down", d, d.body)
             ELSE ParseErr("InvalidJson")

\* Packet::parse_uplink
parse_uplink(d) ==
    LET p == parse(d) IN
    IF p.res = "ok" /\ p.dir = "down" THEN ParseErr("UnexpectedDownlink")
    ELSE p

\* ------------------------------------------------------------------------
\* State
\* ------------------------------------------------------------------------
VARIABLES
    scn,              \* which traffic the environment produces (fixed by Init)
    now,              \* SystemTime::now(), the wall clock (seconds)
    backs,            \* how many times the wall clock was set back
    clients,          \* Internal.clients: mac -> Client or NoClient
    downlink_senders, \* Internal.downlink_senders: token -> oneshot sender
    iq,               \* the internal mpsc channel (udp_tx_sender/receiver)
    aq,               \* the application mpsc channel (client_tx_sender/receiver)
    appLog,           \* events ClientRx::recv has returned, in order
    rx,               \* socket_handler task: "running" or "dead"
    rxTodo,           \* InternalEvents socket_handler still has to send
    rxHist,           \* datagrams recv_from has returned, in order
    internal,         \* Internal task: "running", "failing", "stopped"
    iOut,             \* Events the current handler still has to send
    iDrop,            \* ack_sender the current handler drops when it ends
    sendTasks,        \* spawned socket-send tasks of the Downlink handler
    callers,          \* dispatch calls: position, arguments and result
    chan,             \* the oneshot channel of each dispatch
    wire,             \* PullResp datagrams that reached a gateway
    ackLog,           \* PushAck/PullAck datagrams handed to send_to, in order
    cachePc,          \* cache_sender task: "send", "sleep", "dead"
    cacheSleep,       \* seconds left of cache_sender's sleep
    lastPull,         \* source address of the last Client event handled, per mac
    fate              \* what became of each dispatch's Downlink event

\* the client runtime (client_runtime/mod.rs), the gateway's side
VARIABLES
    txq,              \* the outbound mpsc channel (tx_sender / Tx.receiver)
    evq,              \* the event mpsc channel (downlink_request_tx / ClientRx)
    gwLog,            \* events the gateway application has received, in order
    connected,        \* Tx::run's local `connected`
    txPc,             \* writer task: "running", "failed"
    txOut,            \* the Event the writer still has to send
    rdPc,             \* reader task: "running", "failed", "panicked"
    rdOut,            \* the Event the reader still has to send
    rdHist,           \* datagrams socket_recv.recv has returned, in order
    kaPc,             \* keepalive task: "send", "sleep", "failed"
    kaSleep,          \* milliseconds left of the keepalive's sleep
    pulls,            \* how many PullData the keepalive task has enqueued
    sent,             \* datagrams handed to socket_send.send, in order
    shutdown,         \* the shutdown trigger has fired
    runRet,           \* UdpRuntime::run: "running", "Ok", "Err"
    held,             \* DownlinkRequests in the application's hands
    evRx,             \* the application still holds ClientRx
    pushes            \* how many frames the application has submitted

\* the argument and result of a pure function under test
VARIABLES px

srvvars == <<scn, now, backs, clients, downlink_senders, iq, aq, appLog, rx,
             rxTodo, rxHist, internal, iOut, iDrop, sendTasks, callers, chan,
             wire, ackLog, cachePc, cacheSleep, lastPull, fate>>

gwvars == <<txq, evq, gwLog, connected, txPc, txOut, rdPc, rdOut, rdHist, kaPc,
            kaSleep, pulls, sent, shutdown, runRet, held, evRx, pushes>>

vars == <<srvvars, gwvars, px>>

\* the client runtime after UdpRuntime::new and the call of run
GwStart ==
    /\ txq = <<>>
    /\ evq = <<>>
    /\ gwLog = <<>>
    /\ connected = TRUE
    /\ txPc = "running"
    /\ txOut = <<>>
    /\ rdPc = "running"
    /\ rdOut = <<>>
    /\ rdHist = <<>>
    /\ kaPc = "send"
    /\ kaSleep = 0
    /\ pulls = 0
    /\ sent = <<>>
    /\ shutdown = FALSE
    /\ runRet = "running"
    /\ held = {}
    /\ evRx = TRUE
    /\ pushes = 0

\* no pure function under test
NoPx == [op |-> "none"]

NoClient == [addr |-> 0, last_seen |-> 0, present |-> FALSE]
\* struct Client
Client(addr, t) == [addr |-> addr, last_seen |-> t, present |-> TRUE]

NoAck == [tok |-> 0, mac |-> 0, error |-> "NONE", re |-> 0]
ChanNone == [st |-> "none", ack |-> NoAck]
ChanOpen == [st |-> "open", ack |-> NoAck]
ChanClosed == [st |-> "closed", ack |-> NoAck]
ChanValue(a) == [st |-> "value", ack |-> a]

IdleCaller ==
    [pc |-> "idle", mac |-> 0, tok |-> 0, timeout |-> FALSE, result |-> "none"]

\* enum InternalEvent
IDownlink(tok, mac, c) == [type |-> "Downlink", tok |-> tok, mac |-> mac, c |-> c]
IPacketBySocket(id, tok, addr) ==
    [type |-> "PacketBySocket", id |-> id, tok |-> tok, addr |-> addr]
\* dg: the received datagram the event comes from (history tag)
IClient(mac, addr, dg) ==
    [type |-> "Client", mac |-> mac, addr |-> addr, dg |-> dg]
IPacketReceived(dg, idx, mac) ==
    [type |-> "PacketReceived", dg |-> dg, idx |-> idx, mac |-> mac]
IStatReceived(dg, mac) == [type |-> "StatReceived", dg |-> dg, mac |-> mac]
IUnableToParseUdpFrame(err, dg) ==
    [type |-> "UnableToParseUdpFrame", err |-> err, dg |-> dg]
IAckReceived(txack) == [type |-> "AckReceived", txack |-> txack]
ICheckCache == [type |-> "CheckCache"]
\* addr: the address the failed send_to went to (history tag)
IFailedSend(tok, mac, addr) ==
    [type |-> "FailedSend", tok |-> tok, mac |-> mac, addr |-> addr]
ISuccessSend(tok, c) == [type |-> "SuccessSend", tok |-> tok, c |-> c]

\* enum Event
ENewClient(mac, addr, dg) ==
    [type |-> "NewClient", mac |-> mac, addr |-> addr, dg |-> dg]
EUpdateClient(mac, addr, dg) ==
    [type |-> "UpdateClient", mac |-> mac, addr |-> addr, dg |-> dg]
ENoClientWithMac(tok, mac) == [type |-> "NoClientWithMac", tok |-> tok, mac |-> mac]
EClientDisconnected(mac, addr) ==
    [type |-> "ClientDisconnected", mac |-> mac, addr |-> addr]

\* the state after UdpRuntime::new, with the environment's traffic sc
Start(sc) ==
    /\ scn = sc
    /\ now = 0
    /\ backs = 0
    /\ clients = [m \in Macs |-> NoClient]
    /\ downlink_senders = [t \in Tokens |-> NoCaller]
    /\ iq = <<>>
    /\ aq = <<>>
    /\ appLog = <<>>
    /\ rx = "running"
    /\ rxTodo = <<>>
    /\ rxHist = <<>>
    /\ internal = "running"
    /\ iOut = <<>>
    /\ iDrop = NoCaller
    /\ sendTasks = {}
    /\ callers = [c \in Callers |-> IdleCaller]
    /\ chan = [c \in Callers |-> ChanNone]
    /\ wire = {}
    /\ ackLog = <<>>
    /\ cachePc = "send"
    /\ cacheSleep = 0
    /\ lastPull = [m \in Macs |-> 0]
    /\ fate = [c \in Callers |-> "none"]
    /\ GwStart

\* the state after the first CheckCache, sent at start, was handled (a sweep
\* of the empty table) and cache_sender went to sleep
Swept(sc) ==
    /\ scn = sc
    /\ now = 0
    /\ backs = 0
    /\ clients = [m \in Macs |-> NoClient]
    /\ downlink_senders = [t \in Tokens |-> NoCaller]
    /\ iq = <<>>
    /\ aq = <<>>
    /\ appLog = <<>>
    /\ rx = "running"
    /\ rxTodo = <<>>
    /\ rxHist = <<>>
    /\ internal = "running"
    /\ iOut = <<>>
    /\ iDrop = NoCaller
    /\ sendTasks = {}
    /\ callers = [c \in Callers |-> IdleCaller]
    /\ chan = [c \in Callers |-> ChanNone]
    /\ wire = {}
    /\ ackLog = <<>>
    /\ cachePc = "sleep"
    /\ cacheSleep = DEFAULT_CACHE_CHECK_FREQ
    /\ lastPull = [m \in Macs |-> 0]
    /\ fate = [c \in Callers |-> "none"]
    /\ GwStart

\* dropping the oneshot sender of dispatch c: a receiver that has no value
\* yet observes RecvError
DropSender(ch, c) ==
    IF c # NoCaller /\ ch[c].st = "open" THEN [ch EXCEPT ![c] = ChanClosed]
    ELSE ch

\* ------------------------------------------------------------------------
\* The wall clock
\* ------------------------------------------------------------------------
Max(a, b) == IF a >= b THEN a ELSE b

Tick ==
    /\ now + TickStep <= MaxTime
    /\ now' = now + TickStep
    /\ cacheSleep' = Max(0, cacheSleep - TickStep)
    /\ UNCHANGED <<px, gwvars, scn, backs, clients, downlink_senders, iq, aq, appLog, rx,
                   rxTodo, rxHist, internal, iOut, iDrop, sendTasks, callers,
                   chan, wire, ackLog, cachePc, lastPull, fate>>

\* SystemTime is not monotonic: the wall clock is set back
ClockBack ==
    /\ backs < MaxBack
    /\ now >= BackStep
    /\ now' = now - BackStep
    /\ backs' = backs + 1
    /\ UNCHANGED <<px, gwvars, scn, clients, downlink_senders, iq, aq, appLog, rx, rxTodo,
                   rxHist, internal, iOut, iDrop, sendTasks, callers, chan,
                   wire, ackLog, cachePc, cacheSleep, lastPull, fate>>

\* ------------------------------------------------------------------------
\* UdpRx::run, cache_sender
\* ------------------------------------------------------------------------
CacheSend ==
    /\ cachePc = "send"
    /\ \/ /\ internal # "stopped"
          /\ Len(iq) < ChannelCap
          /\ iq' = Append(iq, ICheckCache)
          /\ cachePc' = "sleep"
          /\ cacheSleep' = DEFAULT_CACHE_CHECK_FREQ
       \/ /\ internal = "stopped"
          /\ cachePc' = "dead"
          /\ UNCHANGED <<iq, cacheSleep>>
    /\ UNCHANGED <<px, gwvars, scn, now, backs, clients, downlink_senders, aq, appLog, rx,
                   rxTodo, rxHist, internal, iOut, iDrop, sendTasks, callers,
                   chan, wire, ackLog, lastPull, fate>>

CacheWake ==
    /\ cachePc = "sleep"
    /\ cacheSleep = 0
    /\ cachePc' = "send"
    /\ UNCHANGED <<px, gwvars, scn, now, backs, clients, downlink_senders, iq, aq, appLog, rx,
                   rxTodo, rxHist, internal, iOut, iDrop, sendTasks, callers,
                   chan, wire, ackLog, cacheSleep, lastPull, fate>>

\* ------------------------------------------------------------------------
\* UdpRx::run, socket_handler
\* ------------------------------------------------------------------------
\* the PacketReceived events of rxpk elements i..n of datagram dg
RECURSIVE RxpkEvents(_, _, _, _)
RxpkEvents(dg, i, n, mac) ==
    IF i > n THEN <<>>
    ELSE <<IPacketReceived(dg, i, mac)>> \o RxpkEvents(dg, i + 1, n, mac)

\* UplinkEvents with a slip: the stat of a PushData is sent before its rxpk
UplinkEvents_StatFirst(p, src, dg) ==
    CASE p.id = PullData ->
           <<IClient(p.mac, src, dg), IPacketBySocket(PullAck, p.tok, src)>>
      [] p.id = TxAck ->
           <<IAckReceived([tok |-> p.tok, mac |-> p.mac,
                           error |-> p.body.error, re |-> p.re])>>
      [] p.id = PushData ->
           (IF p.body.stat THEN <<IStatReceived(dg, p.mac)>> ELSE <<>>)
           \o RxpkEvents(dg, 1, p.body.rxpk, p.mac)
           \o <<IPacketBySocket(PushAck, p.tok, src)>>

\* the InternalEvents sent for the parsed uplink p of datagram dg from src
UplinkEvents(p, src, dg) ==
    CASE p.id = PullData ->
           <<IClient(p.mac, src, dg), IPacketBySocket(PullAck, p.tok, src)>>
      [] p.id = TxAck ->
           <<IAckReceived([tok |-> p.tok, mac |-> p.mac,
                           error |-> p.body.error, re |-> p.re])>>
      [] p.id = PushData ->
           RxpkEvents(dg, 1, p.body.rxpk, p.mac)
           \o (IF p.body.stat THEN <<IStatReceived(dg, p.mac)>> ELSE <<>>)
           \o <<IPacketBySocket(PushAck, p.tok, src)>>

\* what one recv_from that returned datagram d from src does
Receive(d, src) ==
    LET p == parse_uplink(d)
        dg == Len(rxHist) + 1
    IN /\ rxHist' = Append(rxHist,
                       [res |-> p.res, id |-> p.id, tok |-> p.tok,
                        mac |-> p.mac, src |-> src, at |-> now,
                        re |-> d.re, body |-> p.body,
                        known |-> p.res = "ok" /\ clients[p.mac].present])
       /\ CASE p.res = "ok" ->
                 /\ rxTodo' = UplinkEvents(p, src, dg)
                 /\ rx' = rx
            [] p.res = "err" ->
                 /\ rxTodo' = <<IUnableToParseUdpFrame(p.err, dg)>>
                 /\ rx' = rx
            [] p.res = "panic" ->
                 /\ rxTodo' = <<>>
                 /\ rx' = "dead"

\* datagrams gateways (or anyone else) send on their own initiative:
\* keepalives, stray TxAcks, uplink data, and frames that do not parse
PullDatagrams == {UpDatagram(1, PullData, m, NoBody) : m \in Macs}
StrayTxAcks == {UpDatagram(t, TxAck, 256, NoBody) : t \in Tokens}
PushDatagrams ==
    {UpDatagram(t, PushData, m, Body("push", MaxRxpk, TRUE, "NONE")) :
       t \in Tokens, m \in Macs}
    \cup {UpDatagram(1, PushData, 1, Body("push", 0, FALSE, "NONE"))}
BadDatagrams ==
    {UpDatagram(1, PushData, m, NoBody) : m \in Macs}
    \cup {Datagram(3, PROTOCOL_VERSION, 1, 0, 0, NoBody, 0),
          Datagram(12, 1, 1, PullData, 1, NoBody, 0),
          Datagram(4, PROTOCOL_VERSION, 1, 6, 0, NoBody, 0),
          Datagram(4, PROTOCOL_VERSION, 1, PullData, 0, NoBody, 0),
          Datagram(4, PROTOCOL_VERSION, 2, PushAck, 0, NoBody, 0),
          UpDatagram(1, TxAck, 1, Body("garbage", 0, FALSE, "NONE"))}

\* the traffic of each scenario: "down" and "down2" exercise downlink
\* dispatch, "live" a dispatch while the application does not call recv, "up"
\* the uplink path, "cache" the liveness sweep
EnvDatagrams ==
    CASE scn = "down" -> PullDatagrams \cup StrayTxAcks
      [] scn = "down2" -> {UpDatagram(1, PullData, 1, NoBody)}
      [] scn = "live" -> {UpDatagram(1, PullData, 1, NoBody)}
      [] scn = "up" ->
           PullDatagrams \cup {UpDatagram(2, PullData, 1, NoBody)}
           \cup PushDatagrams \cup BadDatagrams
           \cup {UpDatagram(2, TxAck, 1, Body("nul", 0, FALSE, "NONE"))}
      [] scn = "cache" ->
           PullDatagrams
           \cup {UpDatagram(2, PushData, 1, Body("push", 1, FALSE, "NONE")),
                 UpDatagram(2, TxAck, 1, NoBody)}

\* how many datagrams the environment sends in each scenario
EnvBudget ==
    CASE scn = "down" -> MaxDatagrams
      [] scn = "down2" -> 1
      [] scn = "live" -> MaxLiveDatagrams
      [] scn = "up" -> MaxDatagrams
      [] scn = "cache" -> MaxDatagrams

\* the dispatch calls the application makes in each scenario
ActiveCallers ==
    CASE scn = "down" -> {1}
      [] scn = "down2" -> Callers
      [] scn = "live" -> {1}
      [] scn = "up" -> {}
      [] scn = "cache" -> {}

\* the arguments <<mac, token, has timeout>> caller c may dispatch with; token 0
\* stands for a handle without packet
DispatchArgs(c) ==
    CASE scn = "down" -> Macs \X {0, 1} \X BOOLEAN
      [] scn = "down2" ->
           Macs \X (IF c = 1 THEN {1} ELSE Tokens) \X {FALSE}
      [] scn = "live" -> Macs \X {1} \X BOOLEAN
      [] OTHER -> {}

\* number of received datagrams that were not a gateway's reply to a PullResp
EnvCount == Cardinality({i \in 1..Len(rxHist) : rxHist[i].re = 0})

UdpRxRecv ==
    /\ rx = "running"
    /\ rxTodo = <<>>
    /\ EnvCount < EnvBudget
    /\ \E d \in EnvDatagrams, src \in Addrs : Receive(d, src)
    /\ UNCHANGED <<px, gwvars, scn, now, backs, clients, downlink_senders, iq, aq, appLog,
                   internal, iOut, iDrop, sendTasks, callers, chan, wire,
                   ackLog, cachePc, cacheSleep, lastPull, fate>>

\* recv_from returns Err(e): `Err(e) => return Err(e.into())`, the task ends
UdpRxRecvErr ==
    /\ rx = "running"
    /\ rxTodo = <<>>
    /\ EnvCount < EnvBudget
    /\ rxHist' = Append(rxHist,
                    [res |-> "recv_err", id |-> 0, tok |-> 0, mac |-> 0,
                     src |-> 0, at |-> now, re |-> 0, body |-> NoBody,
                     known |-> FALSE])
    /\ rx' = "dead"
    /\ UNCHANGED <<px, gwvars, scn, now, backs, clients, downlink_senders, iq, aq, appLog,
                   rxTodo, internal, iOut, iDrop, sendTasks, callers, chan, wire,
                   ackLog, cachePc, cacheSleep, lastPull, fate>>

\* error field of the TxAck a gateway answers a PullResp with
TxAckErrors == {"NONE", "TOO_LATE"}

\* the gateway that got a PullResp answers it with a TxAck of the same token
UdpRxRecvReply ==
    /\ rx = "running"
    /\ rxTodo = <<>>
    /\ \E w \in wire, e \in TxAckErrors :
         /\ Receive(Datagram(PREFIX_LEN + GATEWAY_MAC_LEN + 2, PROTOCOL_VERSION,
                             w.tok, TxAck, w.mac,
                             Body("txack", 0, FALSE, e), w.c), w.addr)
         /\ wire' = wire \ {w}
    /\ UNCHANGED <<px, gwvars, scn, now, backs, clients, downlink_senders, iq, aq, appLog,
                   internal, iOut, iDrop, sendTasks, callers, chan, ackLog,
                   cachePc, cacheSleep, lastPull, fate>>

\* UdpRxSend with a slip: the event is put at the front of the channel
UdpRxSend_Front ==
    /\ rx = "running"
    /\ rxTodo # <<>>
    /\ \/ /\ internal # "stopped"
          /\ Len(iq) < ChannelCap
          /\ iq' = <<Head(rxTodo)>> \o iq
          /\ rxTodo' = Tail(rxTodo)
          /\ rx' = rx
       \/ /\ internal = "stopped"
          /\ rx' = "dead"
          /\ rxTodo' = <<>>
          /\ iq' = iq
    /\ UNCHANGED <<px, gwvars, scn, now, backs, clients, downlink_senders, aq, appLog, rxHist,
                   internal, iOut, iDrop, sendTasks, callers, chan, wire,
                   ackLog, cachePc, cacheSleep, lastPull, fate>>

\* self.internal_sender.send(event).await?
UdpRxSend ==
    /\ rx = "running"
    /\ rxTodo # <<>>
    /\ \/ /\ internal # "stopped"
          /\ Len(iq) < ChannelCap
          /\ iq' = Append(iq, Head(rxTodo))
          /\ rxTodo' = Tail(rxTodo)
          /\ rx' = rx
       \/ /\ internal = "stopped"
          /\ rx' = "dead"
          /\ rxTodo' = <<>>
          /\ iq' = iq
    /\ UNCHANGED <<px, gwvars, scn, now, backs, clients, downlink_senders, aq, appLog, rxHist,
                   internal, iOut, iDrop, sendTasks, callers, chan, wire,
                   ackLog, cachePc, cacheSleep, lastPull, fate>>

\* ------------------------------------------------------------------------
\* Internal::run, one handler per InternalEvent
\* ------------------------------------------------------------------------
\* ClientTable with a slip: a PullData from the address already recorded
\* does not refresh last_seen
ClientTable_NoRefresh(cl, mac, addr, t) ==
    IF cl[mac].present
    THEN IF cl[mac].addr # addr
         THEN [cl EXCEPT ![mac] = Client(addr, t)]
         ELSE cl
    ELSE [cl EXCEPT ![mac] = Client(addr, t)]

\* InternalEvent::Client: the connection table after the event
ClientTable(cl, mac, addr, t) ==
    IF cl[mac].present
    THEN IF cl[mac].addr # addr
         THEN [cl EXCEPT ![mac] = Client(addr, t)]
         ELSE [cl EXCEPT ![mac].last_seen = t]
    ELSE [cl EXCEPT ![mac] = Client(addr, t)]

\* ClientEvents with a slip: an address change is announced as a new client
ClientEvents_AlwaysNew(cl, mac, addr, dg) ==
    IF cl[mac].present
    THEN IF cl[mac].addr # addr THEN <<ENewClient(mac, addr, dg)>> ELSE <<>>
    ELSE <<ENewClient(mac, addr, dg)>>

\* InternalEvent::Client: the events sent to the application
ClientEvents(cl, mac, addr, dg) ==
    IF cl[mac].present
    THEN IF cl[mac].addr # addr THEN <<EUpdateClient(mac, addr, dg)>> ELSE <<>>
    ELSE <<ENewClient(mac, addr, dg)>>

HandleClient(ev) ==
    /\ clients' = ClientTable(clients, ev.mac, ev.addr, now)
    /\ iOut' = ClientEvents(clients, ev.mac, ev.addr, ev.dg)
    /\ lastPull' = [lastPull EXCEPT ![ev.mac] = ev.addr]
    /\ iq' = Tail(iq)
    /\ UNCHANGED <<downlink_senders, iDrop, sendTasks, chan, ackLog, internal, fate>>

\* InternalEvent::CheckCache: the loop over self.clients.clone() visiting the
\* macs in the order ord (HashMap iteration order), from position i on; the
\* loop returns Err at the first entry whose last_seen is later than t
RECURSIVE Sweep(_, _, _, _, _)
Sweep(ord, i, cl, out, t) ==
    IF i > Len(ord) THEN [clients |-> cl, out |-> out, err |-> FALSE]
    ELSE LET mac == ord[i]
             c == cl[mac]
         IN IF t < c.last_seen
            THEN [clients |-> cl, out |-> out, err |-> TRUE]
            ELSE IF t - c.last_seen > DEFAULT_DISCONNECT_THRESHOLD
                 THEN Sweep(ord, i + 1, [cl EXCEPT ![mac] = NoClient],
                            Append(out, EClientDisconnected(mac, c.addr)), t)
                 ELSE Sweep(ord, i + 1, cl, out, t)

\* the orders in which a HashMap may yield the keys S
Orders(S) ==
    {f \in [1..Cardinality(S) -> S] : \A i, j \in DOMAIN f : i # j => f[i] # f[j]}

HandleCheckCache(ev) ==
    /\ \E ord \in Orders({m \in Macs : clients[m].present}) :
         LET r == Sweep(ord, 1, clients, <<>>, now) IN
           /\ clients' = r.clients
           /\ iOut' = r.out
           /\ internal' = IF r.err THEN "failing" ELSE internal
    /\ iq' = Tail(iq)
    /\ UNCHANGED <<downlink_senders, iDrop, sendTasks, chan, ackLog, lastPull, fate>>

\* InternalEvent::UnableToParseUdpFrame, PacketReceived, StatReceived: the
\* event is passed on to the application
HandleForward(ev) ==
    /\ iOut' = <<ev>>
    /\ iq' = Tail(iq)
    /\ UNCHANGED <<clients, downlink_senders, iDrop, sendTasks, chan, ackLog,
                   internal, lastPull, fate>>

\* HandleDownlink with a slip: the unknown-mac branch parks the ack_sender in
\* the pending table instead of dropping it
HandleDownlink_ParksSender(ev) ==
    /\ IF clients[ev.mac].present
       THEN /\ sendTasks' = sendTasks \cup
                  {[c |-> ev.c, tok |-> ev.tok, mac |-> ev.mac,
                    addr |-> clients[ev.mac].addr, pc |-> "send_to"]}
            /\ iOut' = <<>>
            /\ downlink_senders' = downlink_senders
            /\ fate' = [fate EXCEPT ![ev.c] = "spawned"]
       ELSE /\ sendTasks' = sendTasks
            /\ iOut' = <<ENoClientWithMac(ev.tok, ev.mac)>>
            /\ downlink_senders' = [downlink_senders EXCEPT ![ev.tok] = ev.c]
            /\ fate' = [fate EXCEPT ![ev.c] = "nomac"]
    /\ iq' = Tail(iq)
    /\ UNCHANGED <<clients, iDrop, chan, ackLog, internal, lastPull>>

\* InternalEvent::Downlink
HandleDownlink(ev) ==
    /\ IF clients[ev.mac].present
       THEN /\ sendTasks' = sendTasks \cup
                  {[c |-> ev.c, tok |-> ev.tok, mac |-> ev.mac,
                    addr |-> clients[ev.mac].addr, pc |-> "send_to"]}
            /\ iOut' = <<>>
            /\ iDrop' = iDrop
            /\ fate' = [fate EXCEPT ![ev.c] = "spawned"]
       ELSE /\ sendTasks' = sendTasks
            /\ iOut' = <<ENoClientWithMac(ev.tok, ev.mac)>>
            /\ iDrop' = ev.c
            /\ fate' = [fate EXCEPT ![ev.c] = "nomac"]
    /\ iq' = Tail(iq)
    /\ UNCHANGED <<clients, downlink_senders, chan, ackLog, internal, lastPull>>

\* oneshot::Sender::send(txack): fails when the receiver was dropped
OneshotSend(ch, c, txack) ==
    IF callers[c].pc = "done" THEN ch ELSE [ch EXCEPT ![c] = ChanValue(txack)]

\* HandleAckReceived with a slip: the failure of sender.send is propagated
\* with `?` instead of being ignored
HandleAckReceived_Propagates(ev) ==
    LET s == downlink_senders[ev.txack.tok] IN
    /\ IF s # NoCaller
       THEN /\ downlink_senders' = [downlink_senders EXCEPT ![ev.txack.tok] = NoCaller]
            /\ chan' = OneshotSend(chan, s, ev.txack)
            /\ internal' = IF callers[s].pc = "done" THEN "failing" ELSE internal
       ELSE UNCHANGED <<downlink_senders, chan, internal>>
    /\ iOut' = <<>>
    /\ iq' = Tail(iq)
    /\ UNCHANGED <<clients, iDrop, sendTasks, ackLog, lastPull, fate>>

\* InternalEvent::AckReceived
HandleAckReceived(ev) ==
    LET s == downlink_senders[ev.txack.tok] IN
    /\ IF s # NoCaller
       THEN /\ downlink_senders' = [downlink_senders EXCEPT ![ev.txack.tok] = NoCaller]
            /\ chan' = OneshotSend(chan, s, ev.txack)
       ELSE UNCHANGED <<downlink_senders, chan>>
    /\ iOut' = <<>>
    /\ iq' = Tail(iq)
    /\ UNCHANGED <<clients, iDrop, sendTasks, ackLog, internal, lastPull, fate>>

\* InternalEvent::PacketBySocket: the result of send_to is ignored
\* HandlePacketBySocket with a slip: the ack is sent twice
HandlePacketBySocket_Twice(ev) ==
    /\ ackLog' = ackLog \o <<[id |-> ev.id, tok |-> ev.tok, addr |-> ev.addr],
                             [id |-> ev.id, tok |-> ev.tok, addr |-> ev.addr]>>
    /\ iOut' = <<>>
    /\ iq' = Tail(iq)
    /\ UNCHANGED <<clients, downlink_senders, iDrop, sendTasks, chan, internal,
                   lastPull, fate>>

\* InternalEvent::PacketBySocket: socket_sender.send_to of the ack
HandlePacketBySocket(ev) ==
    /\ ackLog' = Append(ackLog, [id |-> ev.id, tok |-> ev.tok, addr |-> ev.addr])
    /\ iOut' = <<>>
    /\ iq' = Tail(iq)
    /\ UNCHANGED <<clients, downlink_senders, iDrop, sendTasks, chan, internal,
                   lastPull, fate>>

\* HandleSuccessSend with a slip: the sender is filed under a fixed key
\* instead of the packet's random_token
HandleSuccessSend_WrongKey(ev) ==
    LET key == CHOOSE t \in Tokens : \A u \in Tokens : t <= u
        old == downlink_senders[key]
    IN
    /\ downlink_senders' = [downlink_senders EXCEPT ![key] = ev.c]
    /\ chan' = IF old # ev.c THEN DropSender(chan, old) ELSE chan
    /\ iOut' = <<>>
    /\ iq' = Tail(iq)
    /\ UNCHANGED <<clients, iDrop, sendTasks, ackLog, internal, lastPull, fate>>

\* HandleSuccessSend with a slip: the sender that insert replaces is kept
\* alive instead of being dropped
HandleSuccessSend_KeepsOld(ev) ==
    /\ downlink_senders' = [downlink_senders EXCEPT ![ev.tok] = ev.c]
    /\ chan' = chan
    /\ iOut' = <<>>
    /\ iq' = Tail(iq)
    /\ UNCHANGED <<clients, iDrop, sendTasks, ackLog, internal, lastPull, fate>>

\* InternalEvent::SuccessSend: HashMap::insert drops the sender it replaces
HandleSuccessSend(ev) ==
    LET old == downlink_senders[ev.tok] IN
    /\ downlink_senders' = [downlink_senders EXCEPT ![ev.tok] = ev.c]
    /\ chan' = IF old # ev.c THEN DropSender(chan, old) ELSE chan
    /\ iOut' = <<>>
    /\ iq' = Tail(iq)
    /\ UNCHANGED <<clients, iDrop, sendTasks, ackLog, internal, lastPull, fate>>

\* HandleFailedSend with a slip: the stale entry is left in the table
HandleFailedSend_KeepsEntry(ev) ==
    /\ clients' = clients
    /\ iOut' = <<ENoClientWithMac(ev.tok, ev.mac)>>
    /\ iq' = Tail(iq)
    /\ UNCHANGED <<downlink_senders, iDrop, sendTasks, chan, ackLog, internal,
                   lastPull, fate>>

\* InternalEvent::FailedSend
HandleFailedSend(ev) ==
    /\ clients' = [clients EXCEPT ![ev.mac] = NoClient]
    /\ iOut' = <<ENoClientWithMac(ev.tok, ev.mac)>>
    /\ iq' = Tail(iq)
    /\ UNCHANGED <<downlink_senders, iDrop, sendTasks, chan, ackLog, internal,
                   lastPull, fate>>

\* self.receiver.recv().await and the match on the message
InternalRecv ==
    /\ internal = "running"
    /\ iOut = <<>>
    /\ iq # <<>>
    /\ LET ev == Head(iq) IN
         CASE ev.type = "CheckCache" -> HandleCheckCache(ev)
           [] ev.type \in {"UnableToParseUdpFrame", "PacketReceived",
                           "StatReceived"} -> HandleForward(ev)
           [] ev.type = "Downlink" -> HandleDownlink(ev)
           [] ev.type = "AckReceived" -> HandleAckReceived(ev)
           [] ev.type = "PacketBySocket" -> HandlePacketBySocket(ev)
           [] ev.type = "Client" -> HandleClient(ev)
           [] ev.type = "SuccessSend" -> HandleSuccessSend(ev)
           [] ev.type = "FailedSend" -> HandleFailedSend(ev)
    /\ UNCHANGED <<px, gwvars, scn, now, backs, aq, appLog, rx, rxTodo, rxHist, callers, wire,
                   cachePc, cacheSleep>>

\* self.client_tx_sender.send(event).await: waits while the channel is full;
\* the handler's ack_sender is dropped when the handler ends
InternalEmit ==
    /\ internal \in {"running", "failing"}
    /\ iOut # <<>>
    /\ Len(aq) < ChannelCap
    /\ aq' = Append(aq, Head(iOut))
    /\ iOut' = Tail(iOut)
    /\ IF Tail(iOut) = <<>>
       THEN /\ chan' = DropSender(chan, iDrop)
            /\ iDrop' = NoCaller
       ELSE UNCHANGED <<chan, iDrop>>
    /\ UNCHANGED <<px, gwvars, scn, now, backs, clients, downlink_senders, iq, appLog, rx,
                   rxTodo, rxHist, internal, sendTasks, callers, wire, ackLog,
                   cachePc, cacheSleep, lastPull, fate>>

\* the oneshot senders held by the messages of the internal channel
SendersIn(q) ==
    {q[i].c : i \in {j \in 1..Len(q) : q[j].type \in {"Downlink", "SuccessSend"}}}

RECURSIVE DropSenders(_, _)
DropSenders(ch, S) ==
    IF S = {} THEN ch
    ELSE LET c == CHOOSE x \in S : TRUE
         IN DropSenders(DropSender(ch, c), S \ {c})

\* run returns Err (Error::LastSeen): the task ends and drops its receiver,
\* the messages still queued and the pending-downlink table
InternalDie ==
    /\ internal = "failing"
    /\ iOut = <<>>
    /\ internal' = "stopped"
    /\ chan' = DropSenders(chan, SendersIn(iq)
                   \cup {downlink_senders[t] : t \in Tokens})
    /\ iq' = <<>>
    /\ downlink_senders' = [t \in Tokens |-> NoCaller]
    /\ UNCHANGED <<px, gwvars, scn, now, backs, clients, aq, appLog, rx, rxTodo, rxHist, iOut,
                   iDrop, sendTasks, callers, wire, ackLog, cachePc,
                   cacheSleep, lastPull, fate>>

\* ------------------------------------------------------------------------
\* The socket-send task spawned by the Downlink handler
\* ------------------------------------------------------------------------
\* socket_sender.send_to(&buf, client_addr).await
SendTo ==
    /\ \E t \in sendTasks :
         /\ t.pc = "send_to"
         /\ \/ /\ sendTasks' = (sendTasks \ {t}) \cup {[t EXCEPT !.pc = "ok"]}
               /\ wire' = wire \cup
                    {[addr |-> t.addr, tok |-> t.tok, mac |-> t.mac, c |-> t.c]}
               /\ fate' = [fate EXCEPT ![t.c] = "sent"]
            \/ /\ sendTasks' = (sendTasks \ {t}) \cup {[t EXCEPT !.pc = "err"]}
               /\ wire' = wire
               /\ fate' = [fate EXCEPT ![t.c] = "failed"]
    /\ UNCHANGED <<px, gwvars, scn, now, backs, clients, downlink_senders, iq, aq, appLog, rx,
                   rxTodo, rxHist, internal, iOut, iDrop, callers, chan,
                   ackLog, cachePc, cacheSleep, lastPull>>

\* the message the task sends to the Internal task
SendResult(t) ==
    IF t.pc = "ok" THEN ISuccessSend(t.tok, t.c)
    ELSE IFailedSend(t.tok, t.mac, t.addr)

\* self_sender.send(..).await.unwrap(): the task ends; on the Err branch, and
\* when the channel is closed (unwrap panics), it drops ack_sender
SendNotify ==
    /\ \E t \in sendTasks :
         /\ t.pc \in {"ok", "err"}
         /\ \/ /\ internal # "stopped"
               /\ Len(iq) < ChannelCap
               /\ iq' = Append(iq, SendResult(t))
               /\ chan' = IF t.pc = "err" THEN DropSender(chan, t.c) ELSE chan
            \/ /\ internal = "stopped"
               /\ iq' = iq
               /\ chan' = DropSender(chan, t.c)
         /\ sendTasks' = sendTasks \ {t}
    /\ UNCHANGED <<px, gwvars, scn, now, backs, clients, downlink_senders, aq, appLog, rx,
                   rxTodo, rxHist, internal, iOut, iDrop, callers, wire,
                   ackLog, cachePc, cacheSleep, lastPull, fate>>

\* ------------------------------------------------------------------------
\* The application: Downlink::dispatch and ClientRx::recv
\* ------------------------------------------------------------------------
Finish(c, r) == [callers EXCEPT ![c].pc = "done", ![c].result = r]

\* Dispatch with a slip: a handle without packet is dispatched like any other
Dispatch_NoneEnqueues ==
    /\ \E c \in ActiveCallers : \E args \in DispatchArgs(c) :
         /\ callers[c].pc = "idle"
         /\ \A b \in Callers : b < c => callers[b].pc # "idle"
         /\ callers' = [callers EXCEPT ![c] =
                [pc |-> "send", mac |-> args[1], tok |-> args[2],
                 timeout |-> args[3], result |-> "none"]]
         /\ chan' = [chan EXCEPT ![c] = ChanOpen]
    /\ UNCHANGED <<px, gwvars, scn, now, backs, clients, downlink_senders, iq, aq, appLog, rx,
                   rxTodo, rxHist, internal, iOut, iDrop, sendTasks, wire,
                   ackLog, cachePc, cacheSleep, lastPull, fate>>

\* prepare_downlink(txpk, mac) and dispatch(timeout): tok = 0 stands for a
\* handle without packet; callers start in the order of their numbers
Dispatch ==
    /\ \E c \in ActiveCallers : \E args \in DispatchArgs(c) :
         LET mac == args[1]
             tok == args[2]
             to == args[3]
         IN
         /\ callers[c].pc = "idle"
         /\ \A b \in Callers : b < c => callers[b].pc # "idle"
         /\ IF tok = 0
            THEN /\ callers' = [callers EXCEPT ![c] =
                       [pc |-> "done", mac |-> mac, tok |-> tok, timeout |-> to,
                        result |-> "DispatchWithNoSendPacket"]]
                 /\ chan' = chan
            ELSE /\ callers' = [callers EXCEPT ![c] =
                       [pc |-> "send", mac |-> mac, tok |-> tok, timeout |-> to,
                        result |-> "none"]]
                 /\ chan' = [chan EXCEPT ![c] = ChanOpen]
    /\ UNCHANGED <<px, gwvars, scn, now, backs, clients, downlink_senders, iq, aq, appLog, rx,
                   rxTodo, rxHist, internal, iOut, iDrop, sendTasks, wire,
                   ackLog, cachePc, cacheSleep, lastPull, fate>>

\* just_dispatch: self.sender.send(InternalEvent::Downlink(..)).await?
CallerEnqueue ==
    /\ \E c \in Callers :
         /\ callers[c].pc = "send"
         /\ \/ /\ internal # "stopped"
               /\ Len(iq) < ChannelCap
               /\ iq' = Append(iq, IDownlink(callers[c].tok, callers[c].mac, c))
               /\ callers' = [callers EXCEPT ![c].pc = "await"]
            \/ /\ internal = "stopped"
               /\ iq' = iq
               /\ callers' = Finish(c, "InternalQueueClosedOrFull")
    /\ UNCHANGED <<px, gwvars, scn, now, backs, clients, downlink_senders, aq, appLog, rx,
                   rxTodo, rxHist, internal, iOut, iDrop, sendTasks, chan,
                   wire, ackLog, cachePc, cacheSleep, lastPull, fate>>

\* tx_ack::Packet::get_result, as far as the caller's outcome goes
get_result(txack) == IF txack.error = "NONE" THEN "Ok" ELSE "AckError"

\* just_dispatch: receiver.await?.get_result()
CallerResolve ==
    /\ \E c \in Callers :
         /\ callers[c].pc = "await"
         /\ chan[c].st \in {"value", "closed"}
         /\ callers' = Finish(c, IF chan[c].st = "value"
                                 THEN get_result(chan[c].ack)
                                 ELSE "AckRecvError")
    /\ UNCHANGED <<px, gwvars, scn, now, backs, clients, downlink_senders, iq, aq, appLog, rx,
                   rxTodo, rxHist, internal, iOut, iDrop, sendTasks, chan,
                   wire, ackLog, cachePc, cacheSleep, lastPull, fate>>

\* CallerTimeout with a slip: the timer is armed only once the Downlink event
\* is on the internal channel
CallerTimeout_AfterSend ==
    /\ \E c \in Callers :
         /\ callers[c].timeout
         /\ callers[c].pc = "await"
         /\ chan[c].st = "open"
         /\ callers' = Finish(c, "SendTimeout")
    /\ UNCHANGED <<px, gwvars, scn, now, backs, clients, downlink_senders, iq, aq, appLog, rx,
                   rxTodo, rxHist, internal, iOut, iDrop, sendTasks, chan,
                   wire, ackLog, cachePc, cacheSleep, lastPull, fate>>

\* dispatch: timeout(duration, just_dispatch) elapses while just_dispatch is
\* pending, which drops the oneshot receiver
CallerTimeout ==
    /\ \E c \in Callers :
         /\ callers[c].timeout
         /\ \/ /\ callers[c].pc = "send"
               /\ internal # "stopped"
               /\ Len(iq) >= ChannelCap
            \/ /\ callers[c].pc = "await"
               /\ chan[c].st = "open"
         /\ callers' = Finish(c, "SendTimeout")
    /\ UNCHANGED <<px, gwvars, scn, now, backs, clients, downlink_senders, iq, aq, appLog, rx,
                   rxTodo, rxHist, internal, iOut, iDrop, sendTasks, chan,
                   wire, ackLog, cachePc, cacheSleep, lastPull, fate>>

\* ClientRx::recv
AppRecv ==
    /\ aq # <<>>
    /\ appLog' = Append(appLog, Head(aq))
    /\ aq' = Tail(aq)
    /\ UNCHANGED <<px, gwvars, scn, now, backs, clients, downlink_senders, iq, rx, rxTodo,
                   rxHist, internal, iOut, iDrop, sendTasks, callers, chan,
                   wire, ackLog, cachePc, cacheSleep, lastPull, fate>>

\* ------------------------------------------------------------------------
\* Specification
\* ------------------------------------------------------------------------
\* downlink dispatch: keepalives, stray TxAcks, dispatch calls, no clock
InitDown == (Swept("down") \/ Swept("down2")) /\ px = NoPx
NextDown ==
    \/ UdpRxRecv
    \/ UdpRxRecvReply
    \/ UdpRxSend
    \/ InternalRecv
    \/ InternalEmit
    \/ SendTo
    \/ SendNotify
    \/ Dispatch
    \/ CallerEnqueue
    \/ CallerResolve
    \/ CallerTimeout
    \/ AppRecv
SpecDown == InitDown /\ [][NextDown]_vars

\* the steps of Downlink::dispatch, the future the application awaits
CallerStep == CallerEnqueue \/ CallerResolve \/ CallerTimeout

\* downlink dispatch where the awaiting application task is polled whenever
\* its future can make progress
SpecDownPoll == InitDown /\ [][NextDown]_vars /\ WF_vars(CallerStep)

\* one dispatch, keepalives that fill the application channel, and an
\* application that may stay away from recv
InitDownLive == Swept("live") /\ px = NoPx

\* the timer of tokio::time::timeout elapses and the awaiting task is polled:
\* nothing else is assumed to make progress
SpecDownTimer == InitDownLive /\ [][NextDown]_vars /\ WF_vars(CallerStep)

\* every task of the runtime is scheduled, a gateway answers each PullResp,
\* a send waiting on a full channel is served in arrival order; the
\* application's recv (AppRecv) is not assumed to happen
SpecDownFair ==
    /\ InitDownLive
    /\ [][NextDown]_vars
    /\ WF_vars(UdpRxRecvReply)
    /\ SF_vars(UdpRxSend)
    /\ WF_vars(InternalRecv)
    /\ WF_vars(InternalEmit)
    /\ WF_vars(SendTo)
    /\ SF_vars(SendNotify)
    /\ SF_vars(CallerEnqueue)
    /\ WF_vars(CallerResolve)

\* uplink path: every kind of datagram, no dispatch, no clock
InitUp == (Start("up")) /\ px = NoPx
NextUp ==
    \/ CacheSend
    \/ UdpRxRecv
    \/ UdpRxSend
    \/ InternalRecv
    \/ InternalEmit
    \/ AppRecv
SpecUp == InitUp /\ [][NextUp]_vars

\* the uplink path on a socket whose recv_from may fail
NextUpErr == NextUp \/ UdpRxRecvErr
SpecUpErr == InitUp /\ [][NextUpErr]_vars

\* liveness sweep: keepalives and data under a running wall clock
InitCache == (Start("cache")) /\ px = NoPx
NextCache ==
    \/ Tick
    \/ ClockBack
    \/ CacheSend
    \/ CacheWake
    \/ UdpRxRecv
    \/ UdpRxSend
    \/ InternalRecv
    \/ InternalEmit
    \/ InternalDie
    \/ AppRecv
SpecCache == InitCache /\ [][NextCache]_vars

\* ------------------------------------------------------------------------
\* Properties of downlink dispatch (SpecDown)
\* ------------------------------------------------------------------------
\* this step is the Internal task taking a message of the given type
Handling(type) ==
    /\ internal = "running"
    /\ iOut = <<>>
    /\ iq # <<>>
    /\ Head(iq).type = type
    /\ iq' = Tail(iq)

InFlight(c) == callers[c].pc \in {"send", "await"}

\* no other dispatch in flight uses the token of dispatch c
TokenUnshared(c) ==
    \A b \in Callers \ {c} : InFlight(b) => callers[b].tok # callers[c].tok

Errors == {"AckRecvError", "SendTimeout"}

\* how many elements of q have the given type
CountType(q, type) == Cardinality({i \in 1..Len(q) : q[i].type = type})

\* C1: when the Internal task handles the TxAck a gateway sent in reply to
\* the PullResp of dispatch c (sent successfully, token not shared with
\* another dispatch in flight, c still awaiting with nothing delivered yet),
\* that TxAck is handed to c's oneshot channel, whatever the interleaving.
C1_ReplyReachesCaller ==
    [][\A c \in Callers :
         (/\ Handling("AckReceived")
          /\ Head(iq).txack.re = c
          /\ callers[c].pc = "await"
          /\ chan[c].st = "open"
          /\ fate[c] = "sent"
          /\ TokenUnshared(c))
         => chan'[c] = ChanValue(Head(iq).txack)]_vars

\* C2: a dispatch that ends while its oneshot holds nothing returns
\* SendTimeout and keeps that result; a TxAck answering it that is handled
\* afterwards reaches no oneshot channel, changes no caller, produces no
\* event and leaves the Internal task running.
C2_TimeoutThenAckDiscarded ==
    /\ [](\A c \in Callers :
            callers[c].result = "SendTimeout"
            => callers[c].pc = "done" /\ chan[c].st # "value")
    /\ [][\A c \in Callers :
            /\ (callers[c].pc = "await" /\ chan[c].st = "open"
                /\ callers'[c].pc = "done")
               => callers'[c].result = "SendTimeout"
            /\ callers[c].result = "SendTimeout" => callers'[c] = callers[c]
            /\ (/\ Handling("AckReceived")
                /\ Head(iq).txack.re = c
                /\ callers[c].result = "SendTimeout")
               => /\ chan'[c] = chan[c]
                  /\ \A b \in Callers :
                       callers[b].tok # callers[c].tok => chan'[b] = chan[b]
                  /\ callers' = callers
                  /\ iOut' = <<>>
                  /\ aq' = aq
                  /\ internal' = "running"
                  /\ downlink_senders'[callers[c].tok] = NoCaller]_vars

\* C2 witness: a dispatch timed out, its PullResp had been sent and entered
\* in the pending table, and the gateway's TxAck was handled after that
C2_Witness ==
    \E c \in Callers :
      /\ callers[c].result = "SendTimeout"
      /\ fate[c] = "sent"
      /\ \E i \in 1..Len(rxHist) : rxHist[i].re = c
      /\ rxTodo = <<>> /\ iq = <<>> /\ sendTasks = {}
      /\ downlink_senders[callers[c].tok] = NoCaller
      /\ internal = "running"

\* C3: handling a Downlink for a mac without table entry emits exactly one
\* NoClientWithMac(packet, mac), starts no send, sends no datagram and leaves
\* the pending table alone; that dispatch never returns Ok and no TxAck ever
\* reaches it.
C3_UnknownMac ==
    /\ [][(Handling("Downlink") /\ ~clients[Head(iq).mac].present)
          => /\ iOut' = <<ENoClientWithMac(Head(iq).tok, Head(iq).mac)>>
             /\ sendTasks' = sendTasks
             /\ wire' = wire
             /\ ackLog' = ackLog
             /\ downlink_senders' = downlink_senders
             /\ clients' = clients
             /\ fate'[Head(iq).c] = "nomac"]_vars
    /\ [](\A c \in Callers :
            fate[c] = "nomac"
            => /\ callers[c].result \in Errors \cup {"none"}
               /\ chan[c].st # "value"
               /\ \A t \in Tokens : downlink_senders[t] # c
               /\ \A w \in wire : w.c # c
               /\ \A t \in sendTasks : t.c # c)

\* C3 witness: a dispatch for an unknown mac has returned its error and the
\* application has received the NoClientWithMac event
C3_Witness ==
    \E c \in Callers :
      /\ fate[c] = "nomac"
      /\ callers[c].result = "AckRecvError"
      /\ \E i \in 1..Len(appLog) :
           appLog[i] = ENoClientWithMac(callers[c].tok, callers[c].mac)

\* C4: handling a FailedSend for mac M removes M's entry (and no other),
\* emits exactly one NoClientWithMac(packet, M), leaves the pending table
\* alone and keeps the Internal task running; a dispatch whose send failed
\* is never entered in the pending table and never returns Ok; every failed
\* or unknown-mac dispatch accounts for exactly one NoClientWithMac.
C4_FailedSend ==
    /\ [][Handling("FailedSend")
          => /\ clients' = [clients EXCEPT ![Head(iq).mac] = NoClient]
             /\ iOut' = <<ENoClientWithMac(Head(iq).tok, Head(iq).mac)>>
             /\ downlink_senders' = downlink_senders
             /\ sendTasks' = sendTasks
             /\ internal' = "running"]_vars
    /\ [](\A c \in Callers :
            fate[c] = "failed"
            => /\ callers[c].result \in Errors \cup {"none"}
               /\ chan[c].st # "value"
               /\ \A t \in Tokens : downlink_senders[t] # c
               /\ \A i \in 1..Len(iq) :
                    iq[i].type = "SuccessSend" => iq[i].c # c)
    /\ [](CountType(iOut \o aq \o appLog, "NoClientWithMac")
            + CountType(iq, "FailedSend")
            + Cardinality({t \in sendTasks : t.pc = "err"})
            + (IF iDrop # NoCaller /\ iOut = <<>> THEN 1 ELSE 0)
          = Cardinality({c \in Callers : fate[c] \in {"failed", "nomac"}}))

\* C4 witness: a send failed, the failure was handled, the entry is gone, the
\* caller has its error and the application its event
C4_Witness ==
    \E c \in Callers :
      /\ fate[c] = "failed"
      /\ callers[c].result = "AckRecvError"
      /\ ~clients[callers[c].mac].present
      /\ \E i \in 1..Len(appLog) :
           appLog[i] = ENoClientWithMac(callers[c].tok, callers[c].mac)
      /\ internal = "running"

\* ------------------------------------------------------------------------
\* Properties of the connection table (SpecCache)
\* ------------------------------------------------------------------------
\* everything received so far has been handled by the Internal task
Drained == rxTodo = <<>> /\ iq = <<>> /\ iOut = <<>> /\ internal = "running"

\* index in rxHist of the latest uplink received from mac m (0: none)
LastUplink(m) ==
    LET S == {i \in 1..Len(rxHist) : rxHist[i].res = "ok" /\ rxHist[i].mac = m}
    IN IF S = {} THEN 0 ELSE CHOOSE i \in S : \A j \in S : j <= i

\* the sweep would find m's entry older than the disconnect threshold
Stale(m) ==
    /\ clients[m].present
    /\ now - clients[m].last_seen > DEFAULT_DISCONNECT_THRESHOLD

\* no uplink from m was received within the disconnect threshold
Quiet(m) ==
    \A i \in 1..Len(rxHist) :
      (rxHist[i].res = "ok" /\ rxHist[i].mac = m)
      => now - rxHist[i].at > DEFAULT_DISCONNECT_THRESHOLD

\* C5: handling the Client event of a PullData from (M, addr) leaves M with
\* an entry for addr and every other entry untouched, and emits NewClient
\* when M had no entry, UpdateClient when M's entry had another address and
\* nothing when the address is the same; at all times an entry's address is
\* the source of the last PullData handled for its mac.
C5_PullDataTable ==
    /\ [][Handling("Client")
          => LET m == Head(iq).mac
                 a == Head(iq).addr
                 d == Head(iq).dg
             IN /\ clients'[m].present /\ clients'[m].addr = a
                /\ \A o \in Macs \ {m} : clients'[o] = clients[o]
                /\ iOut' = IF ~clients[m].present THEN <<ENewClient(m, a, d)>>
                           ELSE IF clients[m].addr # a
                                THEN <<EUpdateClient(m, a, d)>>
                                ELSE <<>>]_vars
    /\ [](\A m \in Macs : clients[m].present => clients[m].addr = lastPull[m])

\* C5 witness: a gateway changed address; the application was told of the
\* new client and then of the update, and the table holds the new address
C5_Witness ==
    \E m \in Macs, a, b \in Addrs :
      /\ a # b
      /\ clients[m].present /\ clients[m].addr = b
      /\ \E i, j \in 1..Len(appLog) :
           /\ i < j
           /\ appLog[i].type = "NewClient"
           /\ appLog[i] = ENewClient(m, a, appLog[i].dg)
           /\ appLog[j].type = "UpdateClient"
           /\ appLog[j] = EUpdateClient(m, b, appLog[j].dg)

C7_SweepRemovesQuiet ==
    [][\A m \in Macs :
         (Handling("CheckCache") /\ Stale(m) /\ Quiet(m))
         => /\ ~clients'[m].present
            /\ Cardinality({i \in 1..Len(iOut') :
                 iOut'[i] = EClientDisconnected(m, clients[m].addr)}) = 1]_vars

\* ------------------------------------------------------------------------
\* Properties of the uplink path (SpecUp)
\* ------------------------------------------------------------------------
\* every event on its way to the application, oldest first
Pipeline == appLog \o aq \o iOut \o iq \o rxTodo

\* the PacketReceived and StatReceived events of datagram dg in q
DataEvents(q, dg) ==
    SelectSeq(q, LAMBDA e :
      e.type \in {"PacketReceived", "StatReceived"} /\ e.dg = dg)

\* the events a PushData datagram is to produce
DataExpected(dg) ==
    RxpkEvents(dg, 1, rxHist[dg].body.rxpk, rxHist[dg].mac)
    \o (IF rxHist[dg].body.stat THEN <<IStatReceived(dg, rxHist[dg].mac)>>
        ELSE <<>>)

IsPush(dg) == rxHist[dg].res = "ok" /\ rxHist[dg].id = PushData

\* the acks owed to the datagrams received from the i-th on, in order
RECURSIVE AcksDue(_)
AcksDue(i) ==
    IF i > Len(rxHist) THEN <<>>
    ELSE LET h == rxHist[i]
             a == IF h.res = "ok" /\ h.id = PushData
                  THEN <<[id |-> PushAck, tok |-> h.tok, addr |-> h.src]>>
                  ELSE IF h.res = "ok" /\ h.id = PullData
                       THEN <<[id |-> PullAck, tok |-> h.tok, addr |-> h.src]>>
                       ELSE <<>>
         IN a \o AcksDue(i + 1)

\* the acks still waiting in q as PacketBySocket messages
RECURSIVE AcksIn(_)
AcksIn(q) ==
    IF q = <<>> THEN <<>>
    ELSE (IF Head(q).type = "PacketBySocket"
          THEN <<[id |-> Head(q).id, tok |-> Head(q).tok, addr |-> Head(q).addr]>>
          ELSE <<>>) \o AcksIn(Tail(q))

\* C8: the PacketReceived and StatReceived events of a parsed PushData are,
\* from the application's log back to the receive task, PacketReceived(r1)
\* .. PacketReceived(rn) in array order followed by StatReceived when the
\* datagram has a stat: the application sees them in that order, each once;
\* no other datagram produces such events.
C8_PushDataEvents ==
    \A dg \in 1..Len(rxHist) :
      DataEvents(Pipeline, dg) = IF IsPush(dg) THEN DataExpected(dg) ELSE <<>>

\* C8 witness: the application has received both PacketReceived events and
\* then the StatReceived event of one PushData
C8_Witness ==
    \E dg \in 1..Len(rxHist) :
      /\ IsPush(dg)
      /\ rxHist[dg].body.rxpk >= 2
      /\ rxHist[dg].body.stat
      /\ DataEvents(appLog, dg) = DataExpected(dg)

\* C9: the acks sent so far, followed by those still queued, are exactly one
\* PushAck per parsed PushData and one PullAck per parsed PullData, in order
\* of receipt, each with the datagram's token and to its source address,
\* whatever the connection table holds; TxAcks and datagrams that do not
\* parse contribute none.
C9_OneAckPerUplink ==
    ackLog \o AcksIn(iq \o rxTodo) = AcksDue(1)

\* C9 witness: a PushData and a frame owed no ack (TxAck or unparseable) have
\* been handled and exactly the PushAck was sent
C9_Witness ==
    /\ rxTodo = <<>> /\ iq = <<>>
    /\ \E i, j \in 1..Len(rxHist) :
         /\ IsPush(i)
         /\ rxHist[j].res # "ok" \/ rxHist[j].id = TxAck
         /\ ackLog = <<[id |-> PushAck, tok |-> rxHist[i].tok,
                        addr |-> rxHist[i].src]>>

\* C10: every received datagram that does not parse as an uplink frame has
\* exactly one UnableToParseUdpFrame event on its way to, or received by,
\* the application, and the receive task is still running.
C10_BadFrameReported ==
    \A dg \in 1..Len(rxHist) :
      rxHist[dg].res # "ok"
      => /\ rx = "running"
         /\ Len(SelectSeq(Pipeline, LAMBDA e :
                e.type = "UnableToParseUdpFrame" /\ e.dg = dg)) = 1

\* ------------------------------------------------------------------------
\* packet/tx_ack.rs: the TxAck body and its decoding
\* ------------------------------------------------------------------------
\* Option<T>
None == [some |-> FALSE, v |-> 0]
Some(n) == [some |-> TRUE, v |-> n]

\* adjusted powers (dBm) and gateway timestamps the bodies under test carry
OptPower == {None} \cup {Some(n) : n \in {0, 27}}
OptTmst == {None} \cup {Some(n) : n \in {1234}}

\* enum ErrorField
ErrorFields ==
    {"None", "TooLate", "TooEarly", "CollisionPacket", "CollisionBeacon",
     "TxFreq", "TxPower", "GpsUnlocked", "SendLBT", "SendFail"}

\* enum tx_ack::Error: the two power variants carry data
TxErr(tag, value, tmst) == [tag |-> tag, value |-> value, tmst |-> tmst]
SimpleErr(tag) == TxErr(tag, None, None)
SimpleTags ==
    {"TooLate", "TooEarly", "CollisionPacket", "CollisionBeacon",
     "InvalidTransmitFrequency", "GpsUnlocked", "SendLBT", "SendFail"}
TxErrors ==
    {SimpleErr(t) : t \in SimpleTags}
    \cup {TxErr("InvalidTransmitPower", v, None) : v \in OptPower}
    \cup {TxErr("AdjustedTransmitPower", v, t) : v \in OptPower, t \in OptTmst}

\* Result<Option<u32>, tx_ack::Error>
ROk(tmst) == [ok |-> TRUE, tmst |-> tmst, err |-> SimpleErr("none")]
RErr(e) == [ok |-> FALSE, tmst |-> None, err |-> e]

\* struct Data { txpk_ack: TxPkAck { tmst, result: Error{error} | Warn{warn, value} } }
TxData(kind, field, value, tmst) ==
    [kind |-> kind, field |-> field, value |-> value, tmst |-> tmst]

\* Data::default with a slip: the default body reports TOO_LATE
DataDefault_TooLate == TxData("error", "TooLate", None, None)

\* impl Default for Data
DataDefault == TxData("error", "None", None, None)

\* impl From<Result<(), Error>> for ErrorField
ErrorFieldFrom(e) ==
    CASE e.tag = "TooLate" -> "TooLate"
      [] e.tag = "TooEarly" -> "TooEarly"
      [] e.tag = "CollisionPacket" -> "CollisionPacket"
      [] e.tag = "CollisionBeacon" -> "CollisionBeacon"
      [] e.tag = "InvalidTransmitFrequency" -> "TxFreq"
      [] e.tag = "InvalidTransmitPower" -> "TxPower"
      [] e.tag = "AdjustedTransmitPower" -> "TxPower"
      [] e.tag = "GpsUnlocked" -> "GpsUnlocked"
      [] e.tag = "SendLBT" -> "SendLBT"
      [] e.tag = "SendFail" -> "SendFail"
      [] OTHER -> "None"

\* ErrorField::to_result
to_result(field, tmst) ==
    CASE field = "TooEarly" -> RErr(SimpleErr("TooEarly"))
      [] field = "CollisionPacket" -> RErr(SimpleErr("CollisionPacket"))
      [] field = "CollisionBeacon" -> RErr(SimpleErr("CollisionBeacon"))
      [] field = "TooLate" -> RErr(SimpleErr("TooLate"))
      [] field = "TxFreq" -> RErr(SimpleErr("InvalidTransmitFrequency"))
      [] field = "TxPower" -> RErr(TxErr("InvalidTransmitPower", None, None))
      [] field = "GpsUnlocked" -> RErr(SimpleErr("GpsUnlocked"))
      [] field = "SendLBT" -> RErr(SimpleErr("SendLBT"))
      [] field = "SendFail" -> RErr(SimpleErr("SendFail"))
      [] field = "None" -> ROk(tmst)

\* Data::new_with_error
new_with_error(e) ==
    IF e.tag = "AdjustedTransmitPower"
    THEN TxData("warn", ErrorFieldFrom(e), e.value, e.tmst)
    ELSE TxData("error", ErrorFieldFrom(e), None, None)

\* Data::get_result with a slip: a warn is decoded like an error
Data_get_result_NoWarn(d) == to_result(d.field, d.tmst)

\* Data::get_result
Data_get_result(d) ==
    IF d.kind = "error" THEN to_result(d.field, d.tmst)
    ELSE IF d.field = "TxPower"
         THEN RErr(TxErr("AdjustedTransmitPower", d.value, d.tmst))
         ELSE to_result(d.field, d.tmst)

\* serde_json::to_string(&Data): the keys of the txpk_ack object; tmst and
\* value are skipped when None, the result variant is flattened untagged
ToJson(d) ==
    [tmst |-> d.tmst,
     error |-> IF d.kind = "error" THEN Some(d.field) ELSE [some |-> FALSE, v |-> ""],
     warn |-> IF d.kind = "warn" THEN Some(d.field) ELSE [some |-> FALSE, v |-> ""],
     value |-> IF d.kind = "warn" THEN d.value ELSE None]

\* serde_json::from_str::<Data>: the untagged variants are tried in order,
\* Error (needs the key error) before Warn (needs the key warn)
FromJson(j) ==
    IF j.error.some THEN [ok |-> TRUE, data |-> TxData("error", j.error.v, None, j.tmst)]
    ELSE IF j.warn.some
         THEN [ok |-> TRUE, data |-> TxData("warn", j.warn.v, j.value, j.tmst)]
         ELSE [ok |-> FALSE, data |-> DataDefault]

\* what the dispatch caller decodes from the body a gateway serialized
Decode(d) ==
    LET r == FromJson(ToJson(d)) IN
    IF r.ok THEN Data_get_result(r.data) ELSE RErr(SimpleErr("InvalidJson"))

\* ------------------------------------------------------------------------
\* Pure functions applied to bounded inputs
\* ------------------------------------------------------------------------
\* an input, not yet applied
PxIn(op, in) ==
    [op |-> op, in |-> in, out |-> [pending |-> TRUE], done |-> FALSE]

\* datagrams of every kind, with every body, and with truncated headers
ParseBodies ==
    {NoBody, Body("nul", 0, FALSE, "NONE"), Body("garbage", 0, FALSE, "NONE"),
     Body("push", 1, TRUE, "NONE"), Body("txack", 0, FALSE, "NONE"),
     Body("pullresp", 0, FALSE, "NONE")}
ParseInputs ==
    {UpDatagram(t, id, m, b) :
       t \in Tokens, id \in {PushData, PullData, TxAck}, m \in Macs,
       b \in ParseBodies}
    \cup {Datagram(PREFIX_LEN + BodyLen(b), PROTOCOL_VERSION, t, id, 0, b, 0) :
            t \in Tokens, id \in {PushAck, PullAck, PullResp}, b \in ParseBodies}
    \cup {Datagram(n, v, 1, id, 1, NoBody, 0) :
            n \in 0..(PREFIX_LEN + GATEWAY_MAC_LEN - 1),
            v \in {0, PROTOCOL_VERSION - 1, PROTOCOL_VERSION,
                   PROTOCOL_VERSION + 1, 255},
            id \in 0..(TxAck + 1) \cup {255}}

ApplyParse ==
    /\ px.op = "parse" /\ ~px.done
    /\ px' = [px EXCEPT !.out = parse(px.in), !.done = TRUE]
    /\ UNCHANGED <<srvvars, gwvars>>

InitParse == Start("parse") /\ px \in {PxIn("parse", d) : d \in ParseInputs}
NextParse == ApplyParse
SpecParse == InitParse /\ [][NextParse]_vars

GetResultInputs ==
    {TxData("error", f, None, t) : f \in ErrorFields, t \in OptTmst}
    \cup {TxData("warn", f, v, t) : f \in ErrorFields, v \in OptPower, t \in OptTmst}

\* Data::get_result of a parsed body
ApplyGetResult ==
    /\ px.op = "get_result" /\ ~px.done
    /\ px' = [px EXCEPT !.out = Data_get_result(px.in), !.done = TRUE]
    /\ UNCHANGED <<srvvars, gwvars>>

\* DownlinkRequest::nack(e), the body serialized, parsed and decoded
ApplyNack ==
    /\ px.op = "nack" /\ ~px.done
    /\ px' = [px EXCEPT !.out = Decode(new_with_error(px.in)), !.done = TRUE]
    /\ UNCHANGED <<srvvars, gwvars>>

\* DownlinkRequest::ack(), the body serialized, parsed and decoded
ApplyAck ==
    /\ px.op = "ack" /\ ~px.done
    /\ px' = [px EXCEPT !.out = Decode(DataDefault), !.done = TRUE]
    /\ UNCHANGED <<srvvars, gwvars>>

InitTxAck ==
    /\ Start("txack")
    /\ px \in {PxIn("get_result", d) : d \in GetResultInputs}
              \cup {PxIn("nack", e) : e \in TxErrors}
              \cup {PxIn("ack", DataDefault)}
NextTxAck == ApplyGetResult \/ ApplyNack \/ ApplyAck
SpecTxAck == InitTxAck /\ [][NextTxAck]_vars

\* C11: Packet::parse returns a frame or a ParseError for every input, and
\* never panics.
C11_ParseTotal ==
    (px.op = "parse" /\ px.done) => px.out.res \in {"ok", "err"}

\* the typed error the claim pairs with each error string other than NONE
\* and TX_POWER
TypedError(field) ==
    CASE field = "TooLate" -> "TooLate"
      [] field = "TooEarly" -> "TooEarly"
      [] field = "CollisionPacket" -> "CollisionPacket"
      [] field = "CollisionBeacon" -> "CollisionBeacon"
      [] field = "TxFreq" -> "InvalidTransmitFrequency"
      [] field = "GpsUnlocked" -> "GpsUnlocked"
      [] field = "SendLBT" -> "SendLBT"
      [] field = "SendFail" -> "SendFail"

\* C12: get_result decodes error NONE to Ok(tmst), error TX_POWER to
\* Err(InvalidTransmitPower(None)), warn TX_POWER with value N to
\* Err(AdjustedTransmitPower(N, tmst)) and every other error X to its typed
\* error.
C12_GetResult ==
    (px.op = "get_result" /\ px.done)
    => LET d == px.in IN
       /\ (d.kind = "error" /\ d.field = "None") => px.out = ROk(d.tmst)
       /\ (d.kind = "error" /\ d.field = "TxPower")
            => px.out = RErr(TxErr("InvalidTransmitPower", None, None))
       /\ (d.kind = "warn" /\ d.field = "TxPower")
            => px.out = RErr(TxErr("AdjustedTransmitPower", d.value, d.tmst))
       /\ (d.kind = "error" /\ d.field \notin {"None", "TxPower"})
            => px.out = RErr(SimpleErr(TypedError(d.field)))

\* C12 witness: a warn TX_POWER body with a value and a tmst was decoded
C12_Witness ==
    /\ px.op = "get_result" /\ px.done
    /\ px.in.kind = "warn" /\ px.in.field = "TxPower"
    /\ px.in.value.some /\ px.in.tmst.some
    /\ ~px.out.ok

\* C13: the body of nack(e) decodes to exactly Err(e), for every
\* tx_ack::Error e, and the body of ack() decodes to Ok(None).
C13_NackRoundTrip ==
    /\ (px.op = "nack" /\ px.done) => px.out = RErr(px.in)
    /\ (px.op = "ack" /\ px.done) => px.out = ROk(None)

\* ------------------------------------------------------------------------
\* client_runtime/mod.rs: the gateway's runtime
\* ------------------------------------------------------------------------
\* bounds of the "gw" scenario: frames the application submits, PullData the
\* keepalive task enqueues, datagrams the reader receives
MaxGwFrames == 2
MaxPulls == 2
MaxGwDatagrams == 2

\* the keepalive period in milliseconds
KEEPALIVE_MS == 10000

\* the mac the runtime was constructed with (Rx.mac, Tx.mac)
GwMac == 1

\* the "gwlive" scenario keeps no history, so that it can run forever
Log(q, e) == IF scn = "gwlive" THEN <<e>> ELSE Append(q, e)
Count(n) == IF scn = "gwlive" THEN n ELSE n + 1

\* a frame on the outbound queue; big: its serialized form exceeds the
\* writer's buffer; re: the received PullResp a TxAck answers (history tag)
Frame(id, tok, mac, big, re) ==
    [id |-> id, tok |-> tok, mac |-> mac, big |-> big, re |-> re]

\* enum Event of the client runtime
GReconnected == [type |-> "Reconnected"]
GLostConnection == [type |-> "LostConnection"]
GDownlinkRequest(dg, tok, mac) ==
    [type |-> "DownlinkRequest", dg |-> dg, tok |-> tok, mac |-> mac]
GUnableToParseUdpFrame(err, dg) ==
    [type |-> "UnableToParseUdpFrame", err |-> err, dg |-> dg]

\* Packet::parse_downlink
parse_downlink(d) ==
    LET p == parse(d) IN
    IF p.res = "ok" /\ p.dir = "up" THEN ParseErr("UnexpectedUplink")
    ELSE p

\* the traffic of each client scenario: "gw" exercises frames and events,
\* "gwrun" task errors and shutdown, "gwlive" the keepalive without end.
\* The frames the application submits: <<gateway_mac, big>>
SubmitArgs ==
    CASE scn = "gw" -> Macs \X {FALSE}
      [] scn = "gwrun" -> {256} \X BOOLEAN
      [] OTHER -> {256} \X {FALSE}

\* the values rand::random() yields for the writer's tokens
GwTokens == IF scn = "gw" THEN Tokens ELSE {1}

\* whether socket_send.send succeeds; the socket does not fail in "gw"
SendOutcomes == IF scn = "gw" THEN {TRUE} ELSE BOOLEAN

\* ClientTx::send: the application submits a PushData frame
GwSubmit ==
    /\ pushes < MaxGwFrames
    /\ txPc = "running"
    /\ Len(txq) < ChannelCap
    /\ \E a \in SubmitArgs :
         txq' = Append(txq, Frame(PushData, 1, a[1], a[2], 0))
    /\ pushes' = Count(pushes)
    /\ UNCHANGED <<srvvars, px, evq, gwLog, connected, txPc, txOut, rdPc, rdOut,
                   rdHist, kaPc, kaSleep, pulls, sent, shutdown, runRet, held,
                   evRx>>

\* pull_req_sender with a slip: the task ends after its first PullData
KaSend_Once ==
    /\ kaPc = "send"
    /\ pulls < MaxPulls
    /\ \/ /\ txPc = "running"
          /\ Len(txq) < ChannelCap
          /\ txq' = Append(txq, Frame(PullData, 1, 256, FALSE, 0))
          /\ kaPc' = "done"
          /\ kaSleep' = kaSleep
          /\ pulls' = Count(pulls)
       \/ /\ txPc # "running"
          /\ kaPc' = "failed"
          /\ UNCHANGED <<txq, kaSleep, pulls>>
    /\ UNCHANGED <<srvvars, px, evq, gwLog, connected, txPc, txOut, rdPc, rdOut,
                   rdHist, sent, shutdown, runRet, held, evRx, pushes>>

\* pull_req_sender: poll_sender.send(PullData), then sleep; the send fails
\* once the writer task has ended and dropped the receiver
KaSend ==
    /\ kaPc = "send"
    /\ pulls < MaxPulls
    /\ \/ /\ txPc = "running"
          /\ Len(txq) < ChannelCap
          /\ txq' = Append(txq, Frame(PullData, 1, 256, FALSE, 0))
          /\ kaPc' = "sleep"
          /\ kaSleep' = KEEPALIVE_MS
          /\ pulls' = Count(pulls)
       \/ /\ txPc # "running"
          /\ kaPc' = "failed"
          /\ UNCHANGED <<txq, kaSleep, pulls>>
    /\ UNCHANGED <<srvvars, px, evq, gwLog, connected, txPc, txOut, rdPc, rdOut,
                   rdHist, sent, shutdown, runRet, held, evRx, pushes>>

\* the keepalive period elapses
GwTick ==
    /\ kaPc = "sleep"
    /\ kaSleep > 0
    /\ kaSleep' = 0
    /\ UNCHANGED <<srvvars, px, txq, evq, gwLog, connected, txPc, txOut, rdPc,
                   rdOut, rdHist, kaPc, pulls, sent, shutdown, runRet, held,
                   evRx, pushes>>

KaWake ==
    /\ kaPc = "sleep"
    /\ kaSleep = 0
    /\ kaPc' = "send"
    /\ UNCHANGED <<srvvars, px, txq, evq, gwLog, connected, txPc, txOut, rdPc,
                   rdOut, rdHist, kaSleep, pulls, sent, shutdown, runRet, held,
                   evRx, pushes>>

\* Tx::run with a slip: a TxAck gets a fresh random token as well
Stamp_AllTokens(f, t) == [f EXCEPT !.mac = GwMac, !.tok = t]

\* Tx::run with a slip: set_gateway_mac is left out
Stamp_KeepsMac(f, t) ==
    [f EXCEPT !.tok = IF f.id \in {PushData, PullData} THEN t ELSE f.tok]

\* Tx::run: set_gateway_mac and the fresh random token t of PushData/PullData
Stamp(f, t) ==
    [f EXCEPT !.mac = GwMac,
              !.tok = IF f.id \in {PushData, PullData} THEN t ELSE f.tok]

\* Tx::run with a slip: the connected bit is not updated
Connect_Stuck(conn, ok) ==
    [connected |-> conn,
     out |-> IF ok /\ ~conn THEN <<GReconnected>>
             ELSE IF ~ok /\ conn THEN <<GLostConnection>> ELSE <<>>]

\* Tx::run: the connected bit and the event after a socket send
Connect(conn, ok) ==
    [connected |-> ok,
     out |-> IF ok /\ ~conn THEN <<GReconnected>>
             ELSE IF ~ok /\ conn THEN <<GLostConnection>> ELSE <<>>]

\* Tx::run: one frame taken from the queue, stamped, serialized and sent
TxRecv ==
    /\ txPc = "running"
    /\ txOut = <<>>
    /\ txq # <<>>
    /\ txq' = Tail(txq)
    /\ IF Head(txq).big
       THEN /\ txPc' = "failed"
            /\ UNCHANGED <<sent, connected, txOut>>
       ELSE \E t \in GwTokens, ok \in SendOutcomes :
              LET f == Stamp(Head(txq), t)
                  c == Connect(connected, ok)
              IN /\ sent' = Log(sent, [id |-> f.id, tok |-> f.tok, mac |-> f.mac,
                                       re |-> f.re, ok |-> ok])
                 /\ connected' = c.connected
                 /\ txOut' = c.out
                 /\ txPc' = txPc
    /\ UNCHANGED <<srvvars, px, evq, gwLog, rdPc, rdOut, rdHist, kaPc, kaSleep,
                   pulls, shutdown, runRet, held, evRx, pushes>>

\* Tx::run: client_sender.send(event).await?
TxEmit ==
    /\ txPc = "running"
    /\ txOut # <<>>
    /\ \/ /\ evRx
          /\ Len(evq) < ChannelCap
          /\ evq' = Append(evq, Head(txOut))
          /\ txOut' = Tail(txOut)
          /\ txPc' = txPc
       \/ /\ ~evRx
          /\ txPc' = "failed"
          /\ txOut' = <<>>
          /\ evq' = evq
    /\ UNCHANGED <<srvvars, px, txq, gwLog, connected, rdPc, rdOut, rdHist, kaPc,
                   kaSleep, pulls, sent, shutdown, runRet, held, evRx, pushes>>

\* datagrams the server (or whoever holds its address) sends to the gateway
GwDatagrams ==
    IF scn = "gw"
    THEN {Datagram(PREFIX_LEN + 2, PROTOCOL_VERSION, t, PullResp, 0,
                   Body("pullresp", 0, FALSE, "NONE"), 0) : t \in Tokens}
         \cup {Datagram(PREFIX_LEN, PROTOCOL_VERSION, 1, PullAck, 0, NoBody, 0),
               Datagram(PREFIX_LEN, PROTOCOL_VERSION, 1, PushAck, 0, NoBody, 0),
               Datagram(PREFIX_LEN + 2, PROTOCOL_VERSION, 1, PullResp, 0,
                        Body("garbage", 0, FALSE, "NONE"), 0),
               Datagram(PREFIX_LEN - 1, PROTOCOL_VERSION, 1, 0, 0, NoBody, 0),
               UpDatagram(1, PullData, 1, NoBody),
               UpDatagram(1, PushData, 256, NoBody)}
    ELSE {Datagram(PREFIX_LEN + 2, PROTOCOL_VERSION, 1, PullResp, 0,
                   Body("pullresp", 0, FALSE, "NONE"), 0),
          UpDatagram(1, PushData, 256, NoBody)}

\* Rx::run: one datagram received and parsed
RdRecv ==
    /\ rdPc = "running"
    /\ rdOut = <<>>
    /\ Len(rdHist) < MaxGwDatagrams
    /\ \E d \in GwDatagrams :
         LET p == parse_downlink(d)
             dg == Len(rdHist) + 1
         IN /\ rdHist' = Append(rdHist, [res |-> p.res, id |-> p.id, tok |-> p.tok])
            /\ CASE p.res = "panic" -> rdPc' = "panicked" /\ rdOut' = <<>>
                 [] p.res = "err" ->
                      rdPc' = rdPc /\ rdOut' = <<GUnableToParseUdpFrame(p.err, dg)>>
                 [] p.res = "ok" /\ p.id = PullResp ->
                      rdPc' = rdPc /\ rdOut' = <<GDownlinkRequest(dg, p.tok, GwMac)>>
                 [] OTHER -> rdPc' = rdPc /\ rdOut' = <<>>
    /\ UNCHANGED <<srvvars, px, txq, evq, gwLog, connected, txPc, txOut, kaPc,
                   kaSleep, pulls, sent, shutdown, runRet, held, evRx, pushes>>

\* Rx::run: client_sender.send(event).await?
RdEmit ==
    /\ rdPc = "running"
    /\ rdOut # <<>>
    /\ \/ /\ evRx
          /\ Len(evq) < ChannelCap
          /\ evq' = Append(evq, Head(rdOut))
          /\ rdOut' = Tail(rdOut)
          /\ rdPc' = rdPc
       \/ /\ ~evRx
          /\ rdPc' = "failed"
          /\ rdOut' = <<>>
          /\ evq' = evq
    /\ UNCHANGED <<srvvars, px, txq, gwLog, connected, txPc, txOut, rdHist, kaPc,
                   kaSleep, pulls, sent, shutdown, runRet, held, evRx, pushes>>

\* ClientRx::recv by the gateway application
GwAppRecv ==
    /\ evRx
    /\ evq # <<>>
    /\ evq' = Tail(evq)
    /\ gwLog' = Log(gwLog, Head(evq))
    /\ held' = IF Head(evq).type = "DownlinkRequest"
               THEN held \cup {[dg |-> Head(evq).dg, tok |-> Head(evq).tok,
                                mac |-> Head(evq).mac]}
               ELSE held
    /\ UNCHANGED <<srvvars, px, txq, connected, txPc, txOut, rdPc, rdOut, rdHist,
                   kaPc, kaSleep, pulls, sent, shutdown, runRet, evRx, pushes>>

\* DownlinkRequest::ack / nack: into_ack_for_gateway(self.mac) or
\* into_nack_with_error_for_gateway(error, self.mac), then udp_sender.send
GwAnswer ==
    /\ txPc = "running"
    /\ Len(txq) < ChannelCap
    /\ \E h \in held :
         /\ txq' = Append(txq, Frame(TxAck, h.tok, h.mac, FALSE, h.dg))
         /\ held' = held \ {h}
    /\ UNCHANGED <<srvvars, px, evq, gwLog, connected, txPc, txOut, rdPc, rdOut,
                   rdHist, kaPc, kaSleep, pulls, sent, shutdown, runRet, evRx,
                   pushes>>

\* the gateway application drops its ClientRx
GwDropRx ==
    /\ evRx
    /\ evRx' = FALSE
    /\ UNCHANGED <<srvvars, px, txq, evq, gwLog, connected, txPc, txOut, rdPc,
                   rdOut, rdHist, kaPc, kaSleep, pulls, sent, shutdown, runRet,
                   held, pushes>>

\* the shutdown trigger fires
GwShutdown ==
    /\ ~shutdown
    /\ shutdown' = TRUE
    /\ UNCHANGED <<srvvars, px, txq, evq, gwLog, connected, txPc, txOut, rdPc,
                   rdOut, rdHist, kaPc, kaSleep, pulls, sent, runRet, held,
                   evRx, pushes>>

\* a spawned task has ended with an error or a panic
TaskEnded == txPc # "running" \/ rdPc # "running" \/ kaPc = "failed"

\* UdpRuntime::run with a slip: a task's error is swallowed
RunResult_Swallow(sd, ended) == IF sd \/ ended THEN {"Ok"} ELSE {}

\* UdpRuntime::run: what the select! may return
RunResult(sd, ended) ==
    (IF sd THEN {"Ok"} ELSE {}) \cup (IF ended THEN {"Err"} ELSE {})

\* UdpRuntime::run returns; the JoinHandles are dropped, which detaches the
\* spawned tasks
GwRunReturn ==
    /\ runRet = "running"
    /\ runRet' \in RunResult(shutdown, TaskEnded)
    /\ UNCHANGED <<srvvars, px, txq, evq, gwLog, connected, txPc, txOut, rdPc,
                   rdOut, rdHist, kaPc, kaSleep, pulls, sent, shutdown, held,
                   evRx, pushes>>

InitGw == Start("gw") /\ px = NoPx
NextGw ==
    \/ GwSubmit
    \/ KaSend
    \/ GwTick
    \/ KaWake
    \/ TxRecv
    \/ RdRecv
    \/ RdEmit
    \/ GwAppRecv
    \/ GwAnswer
SpecGw == InitGw /\ [][NextGw]_vars

InitGwRun == Start("gwrun") /\ px = NoPx
NextGwRun ==
    \/ GwSubmit
    \/ KaSend
    \/ GwTick
    \/ KaWake
    \/ TxRecv
    \/ TxEmit
    \/ RdRecv
    \/ RdEmit
    \/ GwAppRecv
    \/ GwDropRx
    \/ GwShutdown
    \/ GwRunReturn
SpecGwRun == InitGwRun /\ [][NextGwRun]_vars

\* the keepalive, the writer and the application's recv are scheduled fairly
\* and time passes; a task waiting in Sender::send on a full channel is
\* served in arrival order, so the keepalive's send is strongly fair
InitGwLive == Start("gwlive") /\ px = NoPx
NextGwLive ==
    \/ GwSubmit
    \/ KaSend
    \/ GwTick
    \/ KaWake
    \/ TxRecv
    \/ TxEmit
    \/ GwAppRecv
SpecGwLive ==
    /\ InitGwLive
    /\ [][NextGwLive]_vars
    /\ SF_vars(KaSend)
    /\ WF_vars(GwTick)
    /\ WF_vars(KaWake)
    /\ WF_vars(TxRecv)
    /\ WF_vars(TxEmit)
    /\ WF_vars(GwAppRecv)

\* ------------------------------------------------------------------------
\* Properties of the client runtime (SpecGwRun, SpecGwLive, SpecGw)
\* ------------------------------------------------------------------------
\* the LostConnection and Reconnected events of q
ConnEvents(q) ==
    SelectSeq(q, LAMBDA e : e.type \in {"LostConnection", "Reconnected"})

\* the writer handed a datagram to the socket in this step
Sending == Len(sent') = Len(sent) + 1

\* C14: the connected bit starts TRUE; a send that fails while it is TRUE
\* clears it and emits LostConnection, a send that succeeds while it is FALSE
\* sets it and emits Reconnected, any other send emits nothing; so the
\* LostConnection and Reconnected events, in the order they reach the
\* application, alternate and start with LostConnection.
C14_ConnectedBit ==
    /\ [](sent = <<>> => connected)
    /\ [][Sending
          => LET ok == sent'[Len(sent')].ok IN
             /\ connected' = ok
             /\ txOut' = IF connected /\ ~ok THEN <<GLostConnection>>
                         ELSE IF ~connected /\ ok THEN <<GReconnected>>
                         ELSE <<>>]_vars
    /\ [](LET q == ConnEvents(gwLog \o evq \o txOut) IN
          \A i \in 1..Len(q) :
            q[i].type = IF i % 2 = 1 THEN "LostConnection" ELSE "Reconnected")

\* C14 witness: two sends in a row failed, a later one succeeded, and the
\* application received exactly LostConnection, Reconnected
C14_Witness ==
    /\ ConnEvents(gwLog) = <<GLostConnection, GReconnected>>
    /\ \E i \in 1..(Len(sent) - 1) : ~sent[i].ok /\ ~sent[i + 1].ok

\* C15: once run has returned Ok after the shutdown signal, no datagram is
\* handed to the socket and no event is put on the application's queue.
C15_ShutdownStopsTasks ==
    [][runRet = "Ok" => (sent' = sent /\ Len(evq') <= Len(evq))]_vars

\* C16: run returns Ok only when the shutdown signal has fired and an error
\* only when the reader, the writer or the keepalive task has ended with one;
\* its result does not change afterwards; and whenever the signal has fired
\* or a task has ended that way, run is able to return.
C16_RunReturns ==
    /\ [][(runRet = "running" /\ runRet' = "Ok") => shutdown]_vars
    /\ [][(runRet = "running" /\ runRet' = "Err") => TaskEnded]_vars
    /\ [][runRet # "running" => runRet' = runRet]_vars
    /\ []((runRet = "running" /\ (shutdown \/ TaskEnded)) => ENABLED GwRunReturn)
    /\ []((runRet = "running" /\ ~shutdown /\ ~TaskEnded) => ~ENABLED GwRunReturn)

\* C16 witness: run returned an error because the writer ended with one,
\* without any shutdown signal
C16_Witness == runRet = "Err" /\ ~shutdown /\ txPc = "failed"

\* the writer takes a PullData from the queue and sends it
SendPull == TxRecv /\ Head(txq).id = PullData

\* C17: the keepalive task is about to enqueue a PullData at start; each
\* time it has enqueued one it sleeps for the keepalive period, and it
\* returns to enqueue the next only when the period has elapsed; under fair
\* scheduling the writer sends a PullData again and again.
C17_Keepalive ==
    /\ kaPc = "send"
    /\ [][(kaPc = "send" /\ kaPc' # "send")
          => /\ kaPc' = "sleep" /\ kaSleep' = KEEPALIVE_MS
             /\ txq' = Append(txq, Frame(PullData, 1, 256, FALSE, 0))]_vars
    /\ [][(kaPc # "send" /\ kaPc' = "send") => kaSleep = 0]_vars
    /\ []<><<SendPull>>_vars

\* C17 witness: a PullData was sent and the period after it has elapsed
C17_Witness ==
    /\ sent # <<>> /\ sent[Len(sent)].id = PullData
    /\ kaPc = "send"

\* the events of received datagram dg, from the application back to the reader
RdEvents(dg) ==
    SelectSeq(gwLog \o evq \o rdOut, LAMBDA e :
      e.type \in {"DownlinkRequest", "UnableToParseUdpFrame"} /\ e.dg = dg)

\* C18: of every datagram the reader received, a PullResp has exactly one
\* DownlinkRequest event with its packet and the configured mac, a PullAck
\* or PushAck has no event, anything else has exactly one
\* UnableToParseUdpFrame event, and the reader is still running.
C18_ReaderEvents ==
    \A dg \in 1..Len(rdHist) :
      /\ rdPc = "running"
      /\ IF rdHist[dg].res = "ok"
         THEN RdEvents(dg) = IF rdHist[dg].id = PullResp
                             THEN <<GDownlinkRequest(dg, rdHist[dg].tok, GwMac)>>
                             ELSE <<>>
         ELSE /\ Len(RdEvents(dg)) = 1
              /\ RdEvents(dg)[1].type = "UnableToParseUdpFrame"

\* C19: every TxAck handed to the socket answers a received PullResp, carries
\* that PullResp's random_token and the configured gateway_mac.
C19_TxAckToken ==
    \A i \in 1..Len(sent) :
      sent[i].id = TxAck
      => /\ sent[i].re \in 1..Len(rdHist)
         /\ rdHist[sent[i].re].res = "ok" /\ rdHist[sent[i].re].id = PullResp
         /\ sent[i].tok = rdHist[sent[i].re].tok
         /\ sent[i].mac = GwMac

\* C19 witness: two PullResp with different tokens were both answered
C19_Witness ==
    \E i, j \in 1..Len(sent) :
      /\ sent[i].id = TxAck /\ sent[j].id = TxAck
      /\ sent[i].tok # sent[j].tok

\* C20: a dispatch only ever holds a TxAck with the token of its own
\* PullResp; a TxAck is put in a oneshot channel only when the Internal task
\* handles it, into at most one channel, that of the pending entry of its
\* token, and the entry is removed.
C20_MatchedByToken ==
    /\ [](\A c \in Callers :
            chan[c].st = "value" => chan[c].ack.tok = callers[c].tok)
    /\ [][\A c \in Callers :
            (chan'[c].st = "value" /\ chan[c].st # "value")
            => /\ Handling("AckReceived")
               /\ chan'[c] = ChanValue(Head(iq).txack)
               /\ downlink_senders[Head(iq).txack.tok] = c
               /\ downlink_senders'[Head(iq).txack.tok] = NoCaller
               /\ \A b \in Callers \ {c} : chan'[b] = chan[b]]_vars

\* C20 witness: two dispatches with different tokens each got their TxAck
C20_Witness ==
    \E c, b \in Callers :
      /\ callers[c].tok # callers[b].tok
      /\ chan[c].st = "value" /\ chan[b].st = "value"

\* ------------------------------------------------------------------------
\* Ordering and queues of the server runtime
\* ------------------------------------------------------------------------
\* the types of the application events an uplink datagram produces, and of
\* the Client message that NewClient and UpdateClient come from
UplinkTypes ==
    {"PacketReceived", "StatReceived", "NewClient", "UpdateClient", "Client"}

\* the uplink events of q
UplinkOf(q) == SelectSeq(q, LAMBDA e : e.type \in UplinkTypes)

\* q holds the events of datagrams of one mac in the order of receipt
InWireOrder(q) ==
    \A i, j \in 1..Len(q) :
      (i < j /\ rxHist[q[i].dg].mac = rxHist[q[j].dg].mac) => q[i].dg <= q[j].dg

\* C21: for two uplink datagrams of one mac received in the order d1, d2,
\* every PacketReceived, StatReceived, NewClient and UpdateClient event of d1
\* is received by the application before every such event of d2; the same
\* order holds for the events still on their way.
C21_WireOrder == InWireOrder(UplinkOf(Pipeline))

\* C21 witness: the application has received an event of each of two
\* datagrams of one mac, a client event among them
C21_Witness ==
    \E i, j \in 1..Len(appLog) :
      /\ appLog[i].type \in {"NewClient", "UpdateClient"}
      /\ appLog[j].type \in UplinkTypes
      /\ appLog[i].dg # appLog[j].dg
      /\ rxHist[appLog[i].dg].mac = rxHist[appLog[j].dg].mac

\* C22: the internal queue changes only by a producer appending one message
\* while there is room, or by the running Internal task taking its head to
\* handle it; the application queue changes only by the Internal task
\* appending the next event of the handler while there is room, or by the
\* application receiving its head: nothing is dropped, order is kept.
C22_NoEventLost ==
    [][/\ iq' # iq
          => \/ /\ Len(iq) < ChannelCap
                /\ Len(iq') = Len(iq) + 1
                /\ SubSeq(iq', 1, Len(iq)) = iq
             \/ /\ iq # <<>>
                /\ iq' = Tail(iq)
                /\ internal = "running" /\ iOut = <<>>
       /\ aq' # aq
          => \/ /\ Len(aq) < ChannelCap
                /\ iOut # <<>>
                /\ aq' = Append(aq, Head(iOut))
                /\ iOut' = Tail(iOut)
             \/ /\ aq # <<>>
                /\ aq' = Tail(aq)
                /\ appLog' = Append(appLog, Head(aq))]_vars

\* C23: the pending-downlink table holds the sender of a dispatch only after
\* its PullResp was sent successfully, and once the dispatch has returned
\* SendTimeout its token is no longer a key of the table.
C23_TimeoutRemovesEntry ==
    \A c \in Callers :
      /\ (\E t \in Tokens : downlink_senders[t] = c)
         => (fate[c] = "sent" /\ downlink_senders[callers[c].tok] = c)
      /\ callers[c].result = "SendTimeout"
         => downlink_senders[callers[c].tok] = NoCaller

\* ------------------------------------------------------------------------
\* Properties of the codec
\* ------------------------------------------------------------------------
\* C24: parse reports header errors in this order: fewer than 4 bytes is
\* InvalidPacketLength(len, 4); else a byte 0 other than 2 is
\* InvalidProtocolVersion(byte 0); else a byte 3 above 5 is
\* InvalidIdentifier(byte 3); else a PushData, PullData or TxAck with fewer
\* than 8 bytes after the prefix is InvalidPacketLength(remaining, 8); a
\* PushAck or PullAck of at least 4 bytes and version 2 parses.
C24_HeaderErrors ==
    (px.op = "parse" /\ px.done)
    => LET d == px.in
           n == d.len - 4
       IN
       /\ d.len < 4 => px.out = ParseError("InvalidPacketLength", d.len, 4)
       /\ (d.len >= 4 /\ d.ver # 2)
            => px.out = ParseError("InvalidProtocolVersion", d.ver, 0)
       /\ (d.len >= 4 /\ d.ver = 2 /\ d.id > 5)
            => px.out = ParseError("InvalidIdentifier", d.id, 0)
       /\ (d.len >= 4 /\ d.ver = 2 /\ d.id \in {0, 2, 5} /\ n < 8)
            => px.out = ParseError("InvalidPacketLength", n, 8)
       /\ (d.len >= 4 /\ d.ver = 2 /\ d.id \in {1, 4})
            => (px.out.res = "ok" /\ px.out.id = d.id /\ px.out.tok = d.tok)

\* C24 witness: a frame with a wrong version and an unknown identifier was
\* reported as InvalidProtocolVersion
C24_Witness ==
    /\ px.op = "parse" /\ px.done
    /\ px.in.len >= 4 /\ px.in.ver # 2 /\ px.in.id > 5
    /\ px.out.err = "InvalidProtocolVersion"

\* the tx_ack::Data a parsed TxAck carries: Data::default() when the frame
\* had no JSON, else the decoded error field
BodyData(b) ==
    IF b.error = "NONE" THEN DataDefault
    ELSE TxData("error", "TooLate", None, None)

\* C25: a TxAck frame of exactly 12 bytes, or of 13 bytes whose last byte is
\* 0x00, parses to a TxAck with the frame's token and gateway_mac whose
\* result is Ok(None).
C25_TxAckNoJson ==
    (/\ px.op = "parse" /\ px.done
     /\ px.in.ver = 2 /\ px.in.id = 5
     /\ \/ px.in.len = 12
        \/ px.in.len = 13 /\ px.in.body.kind = "nul")
    => /\ px.out.res = "ok" /\ px.out.dir = "up" /\ px.out.id = 5
       /\ px.out.tok = px.in.tok /\ px.out.mac = px.in.mac
       /\ Data_get_result(BodyData(px.out.body)) = ROk(None)

\* C25 witness: a 13-byte TxAck ending in 0x00 whose gateway_mac also ends
\* in 0x00 was parsed
C25_Witness ==
    /\ px.op = "parse" /\ px.done
    /\ px.in.id = 5 /\ px.in.len = 13 /\ px.in.body.kind = "nul"
    /\ px.in.mac % 256 = 0
    /\ px.out.res = "ok"

\* ------------------------------------------------------------------------
\* The sweep's effect on the tables (SpecCache)
\* ------------------------------------------------------------------------
\* the entry of m is older than the disconnect threshold at time t
Expired(m, t) ==
    clients[m].present /\ t - clients[m].last_seen > DEFAULT_DISCONNECT_THRESHOLD

\* C30: handling CheckCache removes exactly the entries whose age now -
\* last_seen exceeds the disconnect threshold, leaves every other entry and
\* the pending-downlink table as they were, and emits ClientDisconnected for
\* the removed macs only.
C30_SweepFrame ==
    [][Handling("CheckCache")
       => /\ \A m \in Macs :
               clients'[m] = IF Expired(m, now) THEN NoClient ELSE clients[m]
          /\ downlink_senders' = downlink_senders
          /\ \A m \in Macs :
               (\E i \in 1..Len(iOut') :
                  iOut'[i].type = "ClientDisconnected" /\ iOut'[i].mac = m)
               <=> Expired(m, now)]_vars

\* ------------------------------------------------------------------------
\* The codec on bytes: write_preamble, serialize, parse (packet/mod.rs,
\* packet/parser.rs)
\* ------------------------------------------------------------------------
\* random_token values, as u16
CodecTokens == {0, 1, 255, 256, 257, 40850, 65280, 65535}
\* the bytes of a token, high and low
TokenBytes == {0, 1, 146, 159, 255}
\* gateway_mac values, as their eight bytes
CodecMacs ==
    {<<170, 85, 90, 1, 2, 3, 4, 5>>, <<0, 0, 0, 0, 0, 0, 0, 0>>,
     <<255, 255, 255, 255, 255, 255, 1, 0>>}

\* a PullData, PushAck or PullAck packet; mac is 0 for the down packets,
\* which have no gateway_mac
SimpleFrame(id, tok, mac) == [id |-> id, tok |-> tok, mac |-> mac]
SimpleFrames ==
    {SimpleFrame(PullData, t, m) : t \in CodecTokens, m \in CodecMacs}
    \cup {SimpleFrame(id, t, 0) : id \in {PushAck, PullAck}, t \in CodecTokens}

\* well-formed frames of exact length, as bytes
SimpleBytes ==
    {<<2, h, l, 2>> \o m : h \in TokenBytes, l \in TokenBytes, m \in CodecMacs}
    \cup {<<2, h, l, id>> : h \in TokenBytes, l \in TokenBytes, id \in {1, 4}}

\* write_preamble with a slip: the token is written low byte first
write_preamble_LowFirst(token) ==
    <<PROTOCOL_VERSION, token % 256, (token \div 256) % 256>>

\* fn write_preamble: version, (token >> 8) as u8, token as u8
write_preamble(token) ==
    <<PROTOCOL_VERSION, (token \div 256) % 256, token % 256>>

\* simple_up_packet! / simple_down_packet! serialize
serialize(f) ==
    IF f.id = PullData THEN write_preamble(f.tok) \o <<f.id>> \o f.mac
    ELSE write_preamble(f.tok) \o <<f.id>>

\* fn random_token(buffer): (buffer[1] as u16) << 8 | buffer[2] as u16
random_token(buffer) == buffer[2] * 256 + buffer[3]

\* Packet::parse on the bytes of a PullData, PushAck or PullAck buffer (the
\* frame kinds that read no JSON)
parse_bytes(buffer) ==
    IF Len(buffer) < PREFIX_LEN
    THEN parse(Datagram(Len(buffer), 0, 0, 0, 0, NoBody, 0))
    ELSE parse(Datagram(Len(buffer), buffer[1], random_token(buffer), buffer[4],
                        SubSeq(buffer, PREFIX_LEN + 1, Len(buffer)), NoBody, 0))

\* ------------------------------------------------------------------------
\* Tmst::deserialize (packet/mod.rs)
\* ------------------------------------------------------------------------
\* a u64 as two limbs, value = hi * 2^16 + lo with lo < 2^16
U64(hi, lo) == [hi |-> hi, lo |-> lo]

\* serde_json::Value as far as Tmst::deserialize looks at it; a Number is a
\* non-negative integer (as_u64 is Some), a negative integer or a float
JString(str) == [t |-> "String", str |-> str]
JPosInt(n) == [t |-> "Number", n |-> "PosInt", u |-> n]
JOtherNumber(n) == [t |-> "Number", n |-> n, u |-> U64(0, 0)]
JOther(t) == [t |-> t]
JsonValues ==
    {JString(x) : x \in {"immediate", "Immediate", "", "12"}}
    \cup {JPosInt(U64(hi, lo)) :
            hi \in {0, 1, 65535, 65536, 65537}, lo \in {0, 1, 65535}}
    \cup {JOtherNumber(n) : n \in {"NegInt", "Float"}}
    \cup {JOther(t) : t \in {"Null", "Bool", "Array", "Object"}}

TmstImmediate == [ok |-> TRUE, tag |-> "Immediate", u |-> U64(0, 0)]
TmstTmst(u) == [ok |-> TRUE, tag |-> "Tmst", u |-> u]
TmstErr(msg) == [ok |-> FALSE, tag |-> msg, u |-> U64(0, 0)]

\* Tmst::deserialize with a slip: value <= 2^32 is accepted
Tmst_deserialize_Le(value) ==
    IF value.t = "String"
    THEN IF value.str = "immediate" THEN TmstImmediate
         ELSE TmstErr("invalid string for tmst field")
    ELSE IF value.t = "Number"
    THEN IF value.n = "PosInt"
         THEN IF value.u.hi < 65536 \/ value.u = U64(65536, 0)
              THEN TmstTmst(value.u)
              ELSE TmstErr("tmst field must be a 32-bit number")
         ELSE TmstErr("when tmst field is a number, it must be an integer")
    ELSE TmstErr("tmst field must be string or number")

\* impl Deserialize for Tmst: value < 2_u64.pow(32) is hi < 2^16
Tmst_deserialize(value) ==
    IF value.t = "String"
    THEN IF value.str = "immediate" THEN TmstImmediate
         ELSE TmstErr("invalid string for tmst field")
    ELSE IF value.t = "Number"
    THEN IF value.n = "PosInt"
         THEN IF value.u.hi < 65536 THEN TmstTmst(value.u)
              ELSE TmstErr("tmst field must be a 32-bit number")
         ELSE TmstErr("when tmst field is a number, it must be an integer")
    ELSE TmstErr("tmst field must be string or number")

\* ------------------------------------------------------------------------
\* DataRate (packet/types.rs); a string is the sequence of its characters
\* ------------------------------------------------------------------------
SpreadingFactors == 5..12
Bandwidths == {7, 10, 15, 20, 31, 41, 62, 125, 250, 500}
DataRate(sf, bw) == [sf |-> sf, bw |-> bw]

\* the decimal digits of n
Digit(n) == CASE n = 0 -> "0" [] n = 1 -> "1" [] n = 2 -> "2" [] n = 3 -> "3"
              [] n = 4 -> "4" [] n = 5 -> "5" [] n = 6 -> "6" [] n = 7 -> "7"
              [] n = 8 -> "8" [] n = 9 -> "9"
RECURSIVE Decimal(_)
Decimal(n) == IF n < 10 THEN <<Digit(n)>> ELSE Decimal(n \div 10) \o <<Digit(n % 10)>>

\* Display for SmtcSpreadingFactor / SmtcBandwidth: the variant's name
SfName(sf) == <<"S", "F">> \o Decimal(sf)
BwName(bw) == <<"B", "W">> \o Decimal(bw)

DrOk(d) == [ok |-> TRUE, dr |-> d, err |-> "none"]
DrErr(e) == [ok |-> FALSE, dr |-> DataRate(0, 0), err |-> e]

\* SmtcSpreadingFactor::from_str
Sf_from_str(s) ==
    IF \E sf \in SpreadingFactors : SfName(sf) = s
    THEN [ok |-> TRUE, v |-> CHOOSE sf \in SpreadingFactors : SfName(sf) = s]
    ELSE [ok |-> FALSE, v |-> 0]

\* SmtcBandwidth::from_str
Bw_from_str(s) ==
    IF \E bw \in Bandwidths : BwName(bw) = s
    THEN [ok |-> TRUE, v |-> CHOOSE bw \in Bandwidths : BwName(bw) = s]
    ELSE [ok |-> FALSE, v |-> 0]

\* DataRate::from_str: the split point depends on the length of the string
DataRate_from_str(s) ==
    IF Len(s) <= 3 THEN DrErr("InvalidSpreadingFactor")
    ELSE LET cut == IF Len(s) > 8 THEN 4 ELSE 3
             sf == Sf_from_str(SubSeq(s, 1, cut))
             bw == Bw_from_str(SubSeq(s, cut + 1, Len(s)))
         IN IF ~sf.ok THEN DrErr("InvalidSpreadingFactor")
            ELSE IF ~bw.ok THEN DrErr("InvalidBandwidth")
            ELSE DrOk(DataRate(sf.v, bw.v))

\* Display for DataRate
DataRate_to_string(d) == SfName(d.sf) \o BwName(d.bw)

\* ------------------------------------------------------------------------
\* RxPk::snr (packet/push_data/mod.rs); an f32 is held in tenths
\* ------------------------------------------------------------------------
\* most antennas of one RxPk
MaxAnt == 2
\* lsnr values in tenths of a dB: -3.5, -0.5, 0.5, 7.2, 7.8
Lsnrs == {-35, -5, 5, 72, 78}
RsigInputs == UNION {[1..n -> Lsnrs] : n \in 1..MaxAnt}

\* `x as i32` of an f32 held in tenths: truncation toward zero
AsI32(x) == IF x >= 0 THEN x \div 10 ELSE -((-x) \div 10)

\* RxPk::snr for V2: fold over rsig from -150.0
RECURSIVE snr_fold(_, _, _)
snr_fold(rsig, i, max) ==
    IF i > Len(rsig) THEN max
    ELSE snr_fold(rsig, i + 1,
                  IF AsI32(max) < AsI32(rsig[i]) THEN rsig[i] ELSE max)
snr(rsig) == snr_fold(rsig, 1, -1500)

\* ------------------------------------------------------------------------
\* The codec functions applied to bounded inputs
\* ------------------------------------------------------------------------
\* serialize, then parse
ApplySerParse ==
    /\ px.op = "ser_parse" /\ ~px.done
    /\ px' = [px EXCEPT !.out = parse_bytes(serialize(px.in)), !.done = TRUE]
    /\ UNCHANGED <<srvvars, gwvars>>

\* parse, then serialize what was parsed
ApplyParseSer ==
    /\ px.op = "parse_ser" /\ ~px.done
    /\ LET r == parse_bytes(px.in) IN
         px' = [px EXCEPT !.out = IF r.res = "ok"
                                  THEN serialize(SimpleFrame(r.id, r.tok, r.mac))
                                  ELSE <<>>,
                          !.done = TRUE]
    /\ UNCHANGED <<srvvars, gwvars>>

ApplyTmst ==
    /\ px.op = "tmst" /\ ~px.done
    /\ px' = [px EXCEPT !.out = Tmst_deserialize(px.in), !.done = TRUE]
    /\ UNCHANGED <<srvvars, gwvars>>

\* to_string, then from_str
ApplyDataRate ==
    /\ px.op = "datarate" /\ ~px.done
    /\ px' = [px EXCEPT !.out = DataRate_from_str(DataRate_to_string(px.in)),
                        !.done = TRUE]
    /\ UNCHANGED <<srvvars, gwvars>>

ApplySnr ==
    /\ px.op = "snr" /\ ~px.done
    /\ px' = [px EXCEPT !.out = snr(px.in), !.done = TRUE]
    /\ UNCHANGED <<srvvars, gwvars>>

InitCodec ==
    /\ Start("codec")
    /\ px \in {PxIn("ser_parse", f) : f \in SimpleFrames}
              \cup {PxIn("parse_ser", b) : b \in SimpleBytes}
              \cup {PxIn("tmst", v) : v \in JsonValues}
              \cup {PxIn("datarate", DataRate(sf, bw)) :
                      sf \in SpreadingFactors, bw \in Bandwidths}
              \cup {PxIn("snr", r) : r \in RsigInputs}
NextCodec ==
    \/ ApplySerParse
    \/ ApplyParseSer
    \/ ApplyTmst
    \/ ApplyDataRate
    \/ ApplySnr
SpecCodec == InitCodec /\ [][NextCodec]_vars

\* C26: a PullData, PushAck or PullAck frame serialized and parsed is the
\* same frame; a well-formed frame of exact length (12 bytes for PullData,
\* 4 for the acks) parsed and serialized is the same bytes; the token is
\* the big-endian value of bytes 1-2.
C26_SimpleRoundTrip ==
    /\ (px.op = "ser_parse" /\ px.done)
       => /\ px.out.res = "ok"
          /\ SimpleFrame(px.out.id, px.out.tok, px.out.mac) = px.in
          /\ LET b == serialize(px.in) IN
               /\ Len(b) = IF px.in.id = 2 THEN 12 ELSE 4
               /\ b[1] = 2 /\ b[4] = px.in.id
               /\ b[2] * 256 + b[3] = px.in.tok
               /\ b[2] \in 0..255 /\ b[3] \in 0..255
    /\ (px.op = "parse_ser" /\ px.done) => px.out = px.in

\* C26 witness: the PullData with token 0x9F92 and mac AA:55:5A:01:02:03:04:05
\* was parsed from its 12 bytes and serialized back
C26_Witness ==
    /\ px.op = "parse_ser" /\ px.done
    /\ px.in = <<2, 159, 146, 2, 170, 85, 90, 1, 2, 3, 4, 5>>
    /\ px.out = px.in

\* C27: tmst "immediate" is Immediate; a non-negative integer below 2^32 is
\* Tmst(n), so 4294967295 is accepted and 4294967296 is not; every other
\* string, a negative or non-integer number and every other JSON type is an
\* error.
C27_TmstDeserialize ==
    (px.op = "tmst" /\ px.done)
    => LET v == px.in IN
       IF v = JString("immediate") THEN px.out = TmstImmediate
       ELSE IF v.t = "Number" /\ v.n = "PosInt" /\ v.u.hi <= 65535
            THEN px.out = TmstTmst(v.u)
            ELSE ~px.out.ok

\* C27 witness: 4294967296 was rejected
C27_Witness ==
    /\ px.op = "tmst" /\ px.done
    /\ px.in = JPosInt(U64(65536, 0))
    /\ ~px.out.ok

\* C28: for every spreading factor SF5..SF12 and bandwidth in {7, 10, 15,
\* 20, 31, 41, 62, 125, 250, 500} the string of the DataRate is
\* "SF{n}BW{m}" and parses back to the same DataRate.
C28_DataRateRoundTrip ==
    (px.op = "datarate" /\ px.done)
    => /\ DataRate_to_string(px.in)
            = <<"S", "F">> \o Decimal(px.in.sf) \o <<"B", "W">> \o Decimal(px.in.bw)
       /\ px.out = DrOk(px.in)

\* the largest element of a non-empty sequence of numbers
SeqMax(q) == CHOOSE x \in {q[i] : i \in 1..Len(q)} : \A i \in 1..Len(q) : q[i] <= x

\* C29: for a V2 RxPk with a non-empty rsig, snr() is the largest lsnr of
\* its antennas, in whatever order they come and also when two values have
\* the same integer part.
C29_SnrIsMax ==
    (px.op = "snr" /\ px.done) => px.out = SeqMax(px.in)

\* ------------------------------------------------------------------------
\* Termination of dispatch (SpecDownTimer, SpecDownFair)
\* ------------------------------------------------------------------------
\* C31: a dispatch called with Some(timeout) returns in every execution,
\* whatever the Internal task, the gateways and the application do; it
\* returns SendTimeout only while just_dispatch is unresolved, and only a
\* dispatch with a timeout does.
C31_TimeoutReturns ==
    /\ \A c \in Callers :
         (InFlight(c) /\ callers[c].timeout) ~> (callers[c].pc = "done")
    /\ [][\A c \in Callers :
            (callers[c].result # "SendTimeout" /\ callers'[c].result = "SendTimeout")
            => /\ callers[c].timeout
               /\ InFlight(c)
               /\ chan[c].st \in {"none", "open"}]_vars

\* C31 witness: the dispatch returned SendTimeout while its Downlink event
\* sat on the internal channel behind an Internal task that is blocked on
\* the full application channel
C31_Witness ==
    /\ callers[1].pc = "done"
    /\ callers[1].result = "SendTimeout"
    /\ iOut # <<>>
    /\ Len(aq) = ChannelCap
    /\ \E i \in 1..Len(iq) : iq[i].type = "Downlink" /\ iq[i].c = 1

\* C38: a dispatch called with no timeout eventually returns when every
\* PullResp is answered with a TxAck, also when the application does not
\* call recv on the event queue meanwhile and uplink traffic keeps arriving.
C38_DispatchReturns ==
    \A c \in Callers :
      (InFlight(c) /\ ~callers[c].timeout) ~> (callers[c].pc = "done")

\* ------------------------------------------------------------------------
\* Socket errors (SpecUpErr)
\* ------------------------------------------------------------------------
\* C32: a recv error does not end the server's UDP receive task (nor the
\* client's reader): the task retries the recv, so after an error it is
\* still running and later datagrams are processed.
C32_RecvErrorRetried ==
    [][(Len(rxHist') = Len(rxHist) + 1
        /\ rxHist'[Len(rxHist')].res = "recv_err") => rx' = "running"]_vars

\* ------------------------------------------------------------------------
\* The client writer's datagrams (SpecGw)
\* ------------------------------------------------------------------------
\* C33: every datagram the writer sends carries the runtime's gateway_mac,
\* whatever mac the submitted frame held, and the frames are sent in the
\* order they are taken from the outbound queue: each send is that of the
\* frame at the head of the queue, appended to what was sent before.
C33_WriterStampsMac ==
    /\ [](\A i \in 1..Len(sent) : sent[i].mac = GwMac)
    /\ [][sent' # sent
          => /\ txq # <<>> /\ txq' = Tail(txq)
             /\ Len(sent') = Len(sent) + 1
             /\ SubSeq(sent', 1, Len(sent)) = sent
             /\ sent'[Len(sent')].id = Head(txq).id
             /\ sent'[Len(sent')].re = Head(txq).re
             /\ sent'[Len(sent')].mac = GwMac]_vars

\* C33 witness: a keepalive PullData (built with another mac) and a PushData
\* submitted with another mac were both sent
C33_Witness ==
    \E i, j \in 1..Len(sent) :
      /\ i < j
      /\ sent[i].id = PullData /\ sent[j].id = PushData
      /\ pushes = 1 /\ txq = <<>>
      /\ sent[i].mac = GwMac /\ sent[j].mac = GwMac

\* ------------------------------------------------------------------------
\* Clock jumps (SpecCache)
\* ------------------------------------------------------------------------
\* C34: a sweep made while the wall clock reads earlier than some entry's
\* last_seen does not end the Internal task.
C34_SweepSurvivesClockJump ==
    [][(Handling("CheckCache")
        /\ \E m \in Macs : clients[m].present /\ now < clients[m].last_seen)
       => internal' = "running"]_vars

\* ------------------------------------------------------------------------
\* Matching of TxAcks and pending downlinks (SpecDown)
\* ------------------------------------------------------------------------
\* C35: the TxAck that fulfils a pending downlink comes from the gateway
\* mac the downlink was sent to, never from another mac that used the same
\* random_token.
C35_AckFromSameMac ==
    \A c \in Callers :
      chan[c].st = "value" => chan[c].ack.mac = callers[c].mac

\* C36: when the SuccessSend of a second downlink with token R is handled
\* while another dispatch is filed under R, the table holds the second
\* dispatch only and the first one's oneshot is closed; the first dispatch
\* then returns AckRecvError (it does not wait for ever) and never gets a
\* TxAck; a TxAck with token R goes to the dispatch filed under R alone.
C36_TokenCollision ==
    /\ [][Handling("SuccessSend")
          => LET ev == Head(iq)
                 old == downlink_senders[ev.tok]
             IN /\ downlink_senders' = [downlink_senders EXCEPT ![ev.tok] = ev.c]
                /\ (old # NoCaller /\ chan[old].st = "open")
                   => /\ chan'[old] = ChanClosed
                      /\ \A t \in Tokens : downlink_senders'[t] # old]_vars
    /\ [][\A c \in Callers :
            /\ chan[c].st = "closed" => chan'[c].st = "closed"
            /\ (chan[c].st = "closed" /\ InFlight(c) /\ callers'[c].pc = "done")
               => callers'[c].result = "AckRecvError"]_vars
    /\ \A c \in Callers :
         (chan[c].st = "closed" /\ callers[c].pc = "await")
         ~> (callers[c].pc = "done")
    /\ [][Handling("AckReceived")
          => \A c \in Callers :
               chan'[c] # chan[c] => downlink_senders[Head(iq).txack.tok] = c]_vars

\* C36 witness: two downlinks with the same token were both sent; the first
\* dispatch returned AckRecvError, the second one got the TxAck
C36_Witness ==
    \E c, b \in Callers :
      /\ c # b /\ callers[c].tok = callers[b].tok
      /\ fate[c] = "sent" /\ fate[b] = "sent"
      /\ callers[c].pc = "done" /\ callers[c].result = "AckRecvError"
      /\ chan[b].st = "value"

\* C37: handling the failure of a send that went to address a1 leaves the
\* entry of that mac in the connection table when a newer PullData has
\* replaced it by another address a2.
C37_FailedSendKeepsNewer ==
    [][(Handling("FailedSend")
        /\ clients[Head(iq).mac].present
        /\ clients[Head(iq).mac].addr # Head(iq).addr)
       => clients'[Head(iq).mac] = clients[Head(iq).mac]]_vars

\* C39: dispatch on a handle without packet returns
\* DispatchWithNoSendPacket at once, with or without timeout: no event is
\* put on the internal channel, no datagram is sent, no oneshot is created,
\* the pending table does not change, and the result stays.
C39_NoPacket ==
    /\ [][\A c \in Callers :
            (callers[c].pc = "idle" /\ callers'[c].pc # "idle"
             /\ callers'[c].tok = 0)
            => /\ callers'[c].pc = "done"
               /\ callers'[c].result = "DispatchWithNoSendPacket"
               /\ UNCHANGED <<iq, aq, wire, sendTasks, downlink_senders, chan,
                              fate>>]_vars
    /\ [](\A c \in Callers :
            (callers[c].pc # "idle" /\ callers[c].tok = 0)
            => /\ callers[c].pc = "done"
               /\ callers[c].result = "DispatchWithNoSendPacket"
               /\ chan[c] = ChanNone
               /\ fate[c] = "none"
               /\ \A t \in Tokens : downlink_senders[t] # c
               /\ \A i \in 1..Len(iq) : iq[i].type = "Downlink" => iq[i].c # c)

\* C39 witness: a handle without packet was dispatched with a timeout, to a
\* connected gateway, and returned DispatchWithNoSendPacket
C39_Witness ==
    \E c \in Callers :
      /\ callers[c].tok = 0 /\ callers[c].timeout
      /\ clients[callers[c].mac].present
      /\ callers[c].result = "DispatchWithNoSendPacket"

\* ------------------------------------------------------------------------
\* Oversize frames (SpecGwRun)
\* ------------------------------------------------------------------------
\* C40: taking a frame whose serialized form does not fit in the writer's
\* buffer does not stop the writer task.
C40_OversizeKeepsWriter ==
    [][(txPc = "running" /\ txq # <<>> /\ Head(txq).big /\ txq' = Tail(txq))
       => txPc' = "running"]_vars

====
